---- MODULE Spec2Model ----
(***************************************************************************)
(* A model of mure, a driver that performs HTTP requests concurrently and  *)
(* yields the responses in the order of the requests.                      *)
(*                                                                         *)
(* Part I  : ResponseIterator of mure/iterator.py (event loop, one task    *)
(*           per request, priority queue plus one readiness event per      *)
(*           request, optional response cache).  Specification Spec.       *)
(* Part II : ResponseIterator of mure/utils.py (one asyncio.run per chunk  *)
(*           of batch_size resources).  Specification SpecBatch.           *)
(* Part III: InMemoryCache of mure/cache.py.  Specification SpecMem.       *)
(* Part IV : Request.sha256 of mure/models.py.  Specification SpecHash.    *)
(* Part V  : a dispatcher that schedules every worker at once behind a     *)
(*           gate of batch_size permits, run on the list a drained         *)
(*           ResponseIterator was given.  Specification SpecEager.         *)
(* Part VI : Queue of mure/queue.py with Consumption of                    *)
(*           mure/consumption.py.  Specifications SpecQueue, SpecCons.     *)
(* Part VII : the storages of mure/cache/storage.py (MemoryStorage,        *)
(*           FileStorage, SQLiteStorage).  Specification SpecStore.        *)
(***************************************************************************)
EXTENDS Integers, Sequences, FiniteSets, TLC

\* ------------------------------------------------------------------ bounds
\* Largest number of requests of a run.
MaxN == 3
\* Largest batch_size (0 is included: the code does not reject it).
MaxBatch == 2
\* Largest number of save() calls on one in-memory cache.
MaxSaves == 3
\* Largest number of key=value pairs in the query of a URL.
MaxQuery == 2
\* Largest number of entries of a headers mapping.
MaxHeaders == 2

\* ----------------------------------------------------------- the environment
\* The requests of a run are drawn from three kinds: one the server answers
\* with 200, one it answers with 404, and one whose arguments make
\* session.build_request raise (an invalid port, a body that cannot be
\* serialised, ...).  Equal kinds are equal requests: they have the same cache
\* key.
Kinds == {"ok", "nf", "bad"}

\* Exceptions session.send can raise.
Errors == {"ConnectError", "ReadTimeout"}

\* repr(error)
Repr(error) == error \o "()"

\* str(_request.url): Request.url always renders scheme://netloc/path, so it
\* is never the empty string.
UrlOf(kind) == "https://host/" \o kind

\* Whether build_request raises for a request of this kind.
BuildRaises(kind) == kind = "bad"

\* What the server answers to a request that reaches it.
ServerStatus(kind) == IF kind = "ok" THEN 200 ELSE 404
ServerReason(kind) == IF kind = "ok" THEN "OK" ELSE "Not Found"
ServerContent(kind) == "body of " \o kind

\* httpx.Response.is_success
IsSuccess(status) == status >= 200 /\ status <= 299

\* ------------------------------------------------------------------- state
VARIABLES
  requests,    \* self.requests: priority -> kind, priorities 0..N-1
  batch_size,  \* self.batch_size
  cacheOn,     \* self._storage is not None
  cache,       \* the storage: key -> stored entry or NoEntry
  run,         \* 1: the first run of the list, 2: its second run against the same cache
  pc,          \* where the consumer / the generator _afetch_responses is
  cursor,      \* index of the event the for loop of _afetch_responses is at
  tasks,       \* self._tasks: the priorities that are keys of the dict
  taskState,   \* priority -> state of the task created for it
  nextSched,   \* position of the generator _schedule_tasks
  queue,       \* self._queue: set of <<priority, response>>
  unfinished,  \* self._queue._unfinished_tasks
  events,      \* the priorities whose event of self._events is set
  pending,     \* self.pending
  sessionOpen, \* the HTTP client is entered and not yet exited
  loopOpen,    \* the event loop exists and is not closed
  delivered,   \* what the consumer has received: sequence of <<priority, response>>
  first,       \* what the consumer received in the previous run
  sends,       \* network sends issued in this run
  writes,      \* key -> cache writes in this run
  lookups,     \* cache lookups in this run
  raised       \* the priorities whose session.send raised in this run

iterVars == <<requests, batch_size, cacheOn, cache, run, pc, cursor, tasks, taskState,
              nextSched, queue, unfinished, events, pending, sessionOpen, loopOpen,
              delivered, first, sends, writes, lookups, raised>>

\* Part II, mure/utils.py
VARIABLES
  b_entry,      \* "request": the list is handed over as it is (mure.request);
                \* "method": _request hands over copies with "method" attached
  b_given,      \* index -> the keys of the caller's mapping when it called
  b_keys,       \* index -> the keys now in the mapping the iterator holds
  b_batch_size, \* self.batch_size
  b_pc,         \* where the consumer / the generator _process_batches is
  b_start,      \* index of the first resource of the current chunk
  b_inflight,   \* resources of the current chunk whose request is awaited
  b_results,    \* index -> response; the responses of the current chunk
  b_pos,        \* how many responses of the current chunk were yielded
  b_pending,    \* self._pending
  b_started,    \* the resources for which session.request was called
  b_delivered,  \* what the consumer has received: sequence of <<index, response>>
  b_sessions,   \* how many ClientSession objects _process_batch has created
  b_session,    \* the ClientSession that is open (1, 2, ...), 0 if none is
  b_sessionOf   \* index -> the ClientSession its task was given, 0 before

batchVars == <<b_entry, b_given, b_keys, b_batch_size, b_pc, b_start, b_inflight,
               b_results, b_pos, b_pending, b_started, b_delivered, b_sessions,
               b_session, b_sessionOf>>

\* Part III, mure/cache.py
VARIABLES
  m_cache,  \* InMemoryCache._cache: identifier -> response; only saved keys
  m_saves   \* the save() calls so far: sequence of <<resource, response>>

memVars == <<m_cache, m_saves>>

\* Part IV, mure/models.py
VARIABLES
  f_a,    \* a Request
  f_b,    \* another Request
  f_sha   \* <<f_a.sha256(), f_b.sha256()>> once computed, <<>> before

hashVars == <<f_a, f_b, f_sha>>

\* Part V, the dispatcher with a gate
VARIABLES
  e_pc,         \* "idle", "running" or "exhausted"
  e_state,      \* index -> where the worker is: "gate", "sending" or "done"
  e_slots,      \* index -> the response put into the slot, for the done workers
  e_cache,      \* fingerprint -> response record, for the keys put
  e_cursor,     \* the index the consumer pulls next
  e_sent,       \* the indices whose HTTP call was performed
  e_delivered   \* what the consumer has received: sequence of responses

eagerVars == <<e_pc, e_state, e_slots, e_cache, e_cursor, e_sent, e_delivered>>

\* Largest total_size of a Queue.
MaxSlots == 2
\* Largest number of put() calls on one Queue.
MaxPuts == 3
\* Largest number of get() / get_next() calls on one Queue, and of
\* anext_priority() / aconsume() calls on one Consumption.
MaxCalls == 3

\* Part VI, mure/queue.py and mure/consumption.py
VARIABLES
  q_total,        \* Queue.total_size
  q_consumables,  \* Consumption.consumables
  q_scheduled,    \* Consumption.scheduled
  q_items,        \* the items in Queue._queue: sequence of <<priority, response>>
  q_events,       \* the priorities whose event of Queue._events is set
  q_blocked,      \* the call the consumer is suspended in: <<op, priority>>, or <<>>
  q_other,        \* the call a second consumer is suspended in, or <<>>
  q_puts,         \* the put() calls so far: sequence of <<priority, response, outcome>>
  q_calls         \* the consumer's calls that have ended: sequence of <<op, priority, outcome>>

queueVars == <<q_total, q_consumables, q_scheduled, q_items, q_events, q_blocked, q_other,
               q_puts, q_calls>>

\* Largest number of worker tasks that use one storage.
MaxWorkers == 2
\* Largest number of asave_response / aget_response calls on one storage.
MaxOps == 3

\* Part VII, mure/cache/storage.py
VARIABLES
  s_backend,  \* "memory", "file" or "sqlite"
  s_store,    \* fingerprint -> what the backend holds for it, or None
  s_holder,   \* the task that holds self._lock, 0 when it is not locked
  s_waiters,  \* the tasks that wait for the lock, in the order they came
  s_pc,       \* task -> "idle", "waiting" (for the lock), "inside" (the
              \* critical section, at the await of the database)
  s_op,       \* task -> the call it is in: <<kind, request, response>>
  s_log,      \* the operations carried out, in order: <<"save", fingerprint,
              \* Some(response)>> and <<"get", fingerprint, what was returned>>
  s_begun     \* the number of calls made

storeVars == <<s_backend, s_store, s_holder, s_waiters, s_pc, s_op, s_log, s_begun>>

vars == <<iterVars, batchVars, memVars, hashVars, eagerVars, queueVars, storeVars>>

\* The variables of the parts an action of part I leaves alone, and likewise
\* for part II.
notIterVars == <<batchVars, memVars, hashVars, eagerVars, queueVars, storeVars>>
notBatchVars == <<iterVars, memVars, hashVars, eagerVars, queueVars, storeVars>>
notMemVars == <<iterVars, batchVars, hashVars, eagerVars, queueVars, storeVars>>
notHashVars == <<iterVars, batchVars, memVars, eagerVars, queueVars, storeVars>>
notEagerVars == <<iterVars, batchVars, memVars, hashVars, queueVars, storeVars>>
notQueueVars == <<iterVars, batchVars, memVars, hashVars, eagerVars, storeVars>>
notStoreVars == <<iterVars, batchVars, memVars, hashVars, eagerVars, queueVars>>

N == Cardinality(DOMAIN requests)
Priorities == DOMAIN requests

\* models.Response as built by _asend_request
Response(status, reason, ok, url, content) ==
  [status |-> status, reason |-> reason, ok |-> ok, url |-> url, content |-> content]

\* What the storage holds under a key: the transport-level response together
\* with the URL of the request it was stored with.
Entry(status, reason, url, content) ==
  [status |-> status, reason |-> reason, url |-> url, content |-> content]

NoEntry == Entry(-1, "", "", "")

\* ------------------------------------------------------------ construction
\* ResponseIterator.__init__: nothing is started.
IterInit ==
  /\ requests \in UNION {[0 .. n - 1 -> Kinds] : n \in 0 .. MaxN}
  /\ batch_size \in 0 .. MaxBatch
  /\ cacheOn \in BOOLEAN
  /\ cache = [k \in Kinds |-> NoEntry]
  /\ run = 1
  /\ pc = "new"
  /\ cursor = 0
  /\ tasks = {}
  /\ taskState = [p \in DOMAIN requests |-> "unscheduled"]
  /\ nextSched = 0
  /\ queue = {}
  /\ unfinished = 0
  /\ events = {}
  /\ pending = Cardinality(DOMAIN requests)
  /\ sessionOpen = FALSE
  /\ loopOpen = FALSE
  /\ delivered = <<>>
  /\ first = <<>>
  /\ sends = 0
  /\ writes = [k \in Kinds |-> 0]
  /\ lookups = 0
  /\ raised = {}

\* ---------------------------------------------------------------- helpers
\* The loop "while len(self._tasks) < self.batch_size: next(tasks)" of
\* _afetch_responses: <<keys of _tasks, position of the generator>> after it.
\* The loop with "<=" in place of "<".
RECURSIVE ScheduleWhile_OffByOne(_, _)
ScheduleWhile_OffByOne(t, ns) ==
  IF Cardinality(t) <= batch_size /\ ns < N
    THEN ScheduleWhile_OffByOne(t \cup {ns}, ns + 1)
    ELSE <<t, ns>>

RECURSIVE ScheduleWhile(_, _)
ScheduleWhile(t, ns) ==
  IF Cardinality(t) < batch_size /\ ns < N
    THEN ScheduleWhile(t \cup {ns}, ns + 1)
    ELSE <<t, ns>>

\* A queue that hands out the entry with the highest priority value.
QueueGet_Last(q) == CHOOSE item \in q : \A other \in q : item[1] >= other[1]

\* PriorityQueue.get: the entry with the lowest priority.
QueueGet(q) == CHOOSE item \in q : \A other \in q : item[1] <= other[1]

\* The Response _asend_request returns for what session.send returned
\* (status_code, reason_phrase, is_success, content, url).
FromTransport(e) == Response(e.status, e.reason, IsSuccess(e.status), e.url, e.content)

\* A failed response whose reason is str(error).
FailedResponse_Str(error) == Response(0, error, FALSE, "", "")

\* The Response _asend_request returns when session.send raised.
FailedResponse(error) == Response(0, Repr(error), FALSE, "", "")

\* What the except branch of _asend_request stores: status 0, no content, the
\* reason phrase repr(error), under the key of the request.
FailedEntry(kind, error) == Entry(0, Repr(error), UrlOf(kind), "")

\* What the caching client stores for a response of the server.
ServerEntry(kind) ==
  Entry(ServerStatus(kind), ServerReason(kind), UrlOf(kind), ServerContent(kind))

\* A worker that sets its event without putting its response.
PutAndSet_EventOnly(p, response) ==
  /\ events' = events \cup {p}
  /\ taskState' = [taskState EXCEPT ![p] = "done"]
  /\ UNCHANGED <<queue, unfinished>>

\* The two last statements of _aprocess_request: put the response under the
\* task's priority, set the task's event.
PutAndSet(p, response) ==
  /\ queue' = queue \cup {<<p, response>>}
  /\ unfinished' = unfinished + 1
  /\ events' = events \cup {p}
  /\ taskState' = [taskState EXCEPT ![p] = "done"]

\* The task ends with the exception: nothing is put, no event is set.
Crash(p) ==
  /\ taskState' = [taskState EXCEPT ![p] = "crashed"]
  /\ UNCHANGED <<queue, unfinished, events>>

\* The cache write of a worker.
Store(key, entry) ==
  /\ cache' = [cache EXCEPT ![key] = entry]
  /\ writes' = [writes EXCEPT ![key] = @ + 1]

\* The caching client (hishel.AsyncCacheClient with mure's CacheController)
\* looks the request up before it sends it: the stored entry, or NoEntry.
\* Without a storage the client is a plain AsyncClient.
ClientLookup(key) == IF cacheOn THEN cache[key] ELSE NoEntry

\* The caching client stores the server's response before send returns it.
ClientStore(key) ==
  IF cacheOn THEN Store(key, ServerEntry(key)) ELSE UNCHANGED <<cache, writes>>

\* An except branch that stores nothing.
StoreFailed_Skip(key, error) == UNCHANGED <<cache, writes>>

\* An except branch whose key does not tell requests apart: the failed
\* response ends up under the key of every request.
StoreFailed_AnyKey(key, error) ==
  IF cacheOn
    THEN /\ cache' = [k \in Kinds |-> FailedEntry(k, error)]
         /\ writes' = [writes EXCEPT ![key] = @ + 1]
    ELSE UNCHANGED <<cache, writes>>

\* The except branch of _asend_request: "if self._storage is not None:
\* await self._storage.store(...)" with the failed response.
StoreFailed(key, error) ==
  IF cacheOn THEN Store(key, FailedEntry(key, error)) ELSE UNCHANGED <<cache, writes>>

\* A generator that creates no task after a yield.
ScheduleNext_Skip(t, ns) == <<t, ns>>

\* "next(tasks)" after a yield: _schedule_tasks creates the task of the next
\* priority, if one is left.
ScheduleNext(t, ns) == IF ns < N THEN <<t \cup {ns}, ns + 1>> ELSE <<t, ns>>

\* taskState after the tasks of the priorities in created were created.
Created(created) ==
  [p \in DOMAIN requests |-> IF p \in created THEN "scheduled" ELSE taskState[p]]

\* The end of _afetch_responses after the for loop: the client is exited, the
\* finally block sleeps and joins the queue, the generator is exhausted and
\* _fetch_responses closes the loop.  join() returns only if every item put
\* has been marked done.
Finish(left) ==
  /\ sessionOpen' = FALSE
  /\ IF left = 0
       THEN pc' = "exhausted" /\ loopOpen' = FALSE
       ELSE pc' = "joining" /\ loopOpen' = TRUE

\* ----------------------------------------------------------------- actions
\* A first next() that waits for the first event whether or not there is one.
FirstPull_AlwaysWaits ==
  /\ UNCHANGED notIterVars
  /\ pc = "new"
  /\ LET s == ScheduleWhile(tasks, nextSched) IN
       /\ tasks' = s[1]
       /\ nextSched' = s[2]
       /\ taskState' = Created(s[1] \ tasks)
  /\ pc' = "waiting" /\ sessionOpen' = TRUE /\ loopOpen' = TRUE
  /\ UNCHANGED <<requests, batch_size, cacheOn, cache, run, cursor, queue, unfinished,
                 events, pending, delivered, first, sends, writes, lookups, raised>>

\* The consumer's first next(): _fetch_responses creates the loop,
\* _afetch_responses enters the client, schedules the first tasks and waits
\* for the first event.
FirstPull ==
  /\ UNCHANGED notIterVars
  /\ pc = "new"
  /\ LET s == ScheduleWhile(tasks, nextSched) IN
       /\ tasks' = s[1]
       /\ nextSched' = s[2]
       /\ taskState' = Created(s[1] \ tasks)
  /\ IF N = 0
       THEN Finish(unfinished)
       ELSE pc' = "waiting" /\ sessionOpen' = TRUE /\ loopOpen' = TRUE
  /\ UNCHANGED <<requests, batch_size, cacheOn, cache, run, cursor, queue, unfinished,
                 events, pending, delivered, first, sends, writes, lookups, raised>>

\* A task runs from its creation to its first suspension: _aprocess_request
\* calls _asend_request, which builds the request (outside its try block) and
\* sends it; the caching client answers from the storage if it holds the key.
TaskStart(p) ==
  /\ UNCHANGED notIterVars
  /\ pc = "waiting"
  /\ p \in tasks
  /\ taskState[p] = "scheduled"
  /\ LET kind == requests[p] IN
       IF BuildRaises(kind)
         THEN /\ Crash(p)
              /\ UNCHANGED <<sends, lookups, raised>>
         ELSE /\ lookups' = IF cacheOn THEN lookups + 1 ELSE lookups
              /\ IF ClientLookup(kind) # NoEntry
                   THEN /\ PutAndSet(p, FromTransport(ClientLookup(kind)))
                        /\ UNCHANGED sends
                   ELSE /\ taskState' = [taskState EXCEPT ![p] = "sending"]
                        /\ sends' = sends + 1
                        /\ UNCHANGED <<queue, unfinished, events>>
  /\ UNCHANGED <<requests, batch_size, cacheOn, cache, run, pc, cursor, tasks, nextSched,
                 pending, sessionOpen, loopOpen, delivered, first, writes, raised>>

\* The server answers: the caching client stores the response, _asend_request
\* returns it and _aprocess_request puts it into the queue and sets the event.
TaskResponse(p) ==
  /\ UNCHANGED notIterVars
  /\ pc = "waiting"
  /\ p \in tasks
  /\ taskState[p] = "sending"
  /\ LET kind == requests[p] IN
       /\ ClientStore(kind)
       /\ PutAndSet(p, FromTransport(ServerEntry(kind)))
  /\ UNCHANGED <<requests, batch_size, cacheOn, run, pc, cursor, tasks, nextSched, pending,
                 sessionOpen, loopOpen, delivered, first, sends, lookups, raised>>

\* session.send raises: the except branch of _asend_request stores a failed
\* response if there is a storage and returns the failed response; an
\* exception of the store leaves the except branch and ends the task.
TaskError(p) ==
  /\ UNCHANGED notIterVars
  /\ pc = "waiting"
  /\ p \in tasks
  /\ taskState[p] = "sending"
  /\ \E error \in Errors, storeRaises \in BOOLEAN :
       LET kind == requests[p] IN
         IF cacheOn /\ storeRaises
           THEN /\ Crash(p)
                /\ UNCHANGED <<cache, writes>>
           ELSE /\ (storeRaises = FALSE)
                /\ StoreFailed(kind, error)
                /\ PutAndSet(p, FailedResponse(error))
  /\ raised' = raised \cup {p}
  /\ UNCHANGED <<requests, batch_size, cacheOn, run, pc, cursor, tasks, nextSched, pending,
                 sessionOpen, loopOpen, delivered, first, sends, lookups>>

\* The event the for loop waits for is set: _afetch_responses takes the first
\* item of the priority queue, pops its task and yields the response.
Deliver ==
  /\ UNCHANGED notIterVars
  /\ pc = "waiting"
  /\ cursor \in events
  /\ queue # {}
  /\ LET item == QueueGet(queue) IN
       /\ queue' = queue \ {item}
       /\ tasks' = tasks \ {item[1]}
       /\ delivered' = Append(delivered, item)
  /\ pc' = "yielded"
  /\ UNCHANGED <<requests, batch_size, cacheOn, cache, run, cursor, taskState, nextSched,
                 unfinished, events, pending, sessionOpen, loopOpen, first, sends, writes,
                 lookups, raised>>

\* The consumer's next next(): _afetch_responses resumes after its yield,
\* counts the response, marks the queue item done, schedules the next task and
\* goes on to the next event, or ends.
NextPull ==
  /\ UNCHANGED notIterVars
  /\ pc = "yielded"
  /\ pending' = pending - 1
  /\ unfinished' = unfinished - 1
  /\ LET s == ScheduleNext(tasks, nextSched) IN
       /\ tasks' = s[1]
       /\ nextSched' = s[2]
       /\ taskState' = Created(s[1] \ tasks)
  /\ cursor' = cursor + 1
  /\ IF cursor + 1 = N
       THEN Finish(unfinished - 1)
       ELSE pc' = "waiting" /\ UNCHANGED <<sessionOpen, loopOpen>>
  /\ UNCHANGED <<requests, batch_size, cacheOn, cache, run, queue, events, delivered, first,
                 sends, writes, lookups, raised>>

\* The consumer drops the iterator between two pulls: the generator
\* _fetch_responses is closed at its yield and its finally block closes the
\* loop.  _afetch_responses is suspended at its own yield and is never resumed:
\* a closed loop runs no aclose(), so its client is not exited and the tasks it
\* created stay as they are.
Drop ==
  /\ UNCHANGED notIterVars
  /\ pc \in {"new", "yielded"}
  /\ pc' = "dropped"
  /\ loopOpen' = FALSE
  /\ UNCHANGED <<requests, batch_size, cacheOn, cache, run, cursor, tasks, taskState,
                 nextSched, queue, unfinished, events, pending, sessionOpen, delivered,
                 first, sends, writes, lookups, raised>>

\* The caller runs the same request list again, with the same batch size and
\* against the same cache: a new ResponseIterator.
Rerun ==
  /\ UNCHANGED notIterVars
  /\ pc = "exhausted"
  /\ cacheOn
  /\ run = 1
  /\ run' = 2
  /\ first' = delivered
  /\ pc' = "new"
  /\ cursor' = 0
  /\ tasks' = {}
  /\ taskState' = [p \in DOMAIN requests |-> "unscheduled"]
  /\ nextSched' = 0
  /\ queue' = {}
  /\ unfinished' = 0
  /\ events' = {}
  /\ pending' = N
  /\ sessionOpen' = FALSE
  /\ loopOpen' = FALSE
  /\ delivered' = <<>>
  /\ sends' = 0
  /\ writes' = [k \in Kinds |-> 0]
  /\ lookups' = 0
  /\ raised' = {}
  /\ UNCHANGED <<requests, batch_size, cacheOn, cache>>

IterNext ==
  \/ FirstPull
  \/ \E p \in Priorities : TaskStart(p)
  \/ \E p \in Priorities : TaskResponse(p)
  \/ \E p \in Priorities : TaskError(p)
  \/ Deliver
  \/ NextPull
  \/ Drop
  \/ Rerun

\* Part I at rest, for the specifications of the other parts.
IterIdle ==
  /\ requests = <<>>
  /\ batch_size = 0
  /\ cacheOn = FALSE
  /\ cache = [k \in Kinds |-> NoEntry]
  /\ run = 1
  /\ pc = "idle"
  /\ cursor = 0
  /\ tasks = {}
  /\ taskState = <<>>
  /\ nextSched = 0
  /\ queue = {}
  /\ unfinished = 0
  /\ events = {}
  /\ pending = 0
  /\ sessionOpen = FALSE
  /\ loopOpen = FALSE
  /\ delivered = <<>>
  /\ first = <<>>
  /\ sends = 0
  /\ writes = [k \in Kinds |-> 0]
  /\ lookups = 0
  /\ raised = {}

\* ------------------------------------------------------- Part II: utils.py
\* dtos.Response as built by ResponseIterator._process of utils.py
BResponse(status, reason, ok, text) ==
  [status |-> status, reason |-> reason, ok |-> ok, text |-> text]

Min(a, b) == IF a < b THEN a ELSE b

\* A chunk that leaves out the batch of the last len(values) % n values.
chunk_FullOnly(values, n) ==
  [j \in 1 .. Len(values) \div n |-> SubSeq(values, (j - 1) * n + 1, j * n)]

\* ResponseIterator.chunk: values[i : i + n] for i in range(0, len(values), n)
chunk(values, n) ==
  [j \in 1 .. (Len(values) + n - 1) \div n |->
     SubSeq(values, (j - 1) * n + 1, Min(j * n, Len(values)))]

\* The chunks of the positions 1..len(resources).
Batches == chunk([i \in 1 .. Len(b_given) |-> i], b_batch_size)

\* The chunk _process_batches is at; b_start is its number, 0 before the first.
CurrentBatch == IF b_start = 0 THEN <<>> ELSE Batches[b_start]

\* The keys _request attaches: {**resource, "method": method}
WithMethod(keys) == keys \cup {"method"}

\* The first lines of _process: resource.pop("method"), resource.pop("url").
\* <<keys left in the mapping, whether a KeyError was raised>>
PopKeys(keys) ==
  IF "method" \notin keys THEN <<keys, TRUE>>
  ELSE IF "url" \notin keys THEN <<keys \ {"method"}, TRUE>>
  ELSE <<keys \ {"method", "url"}, FALSE>>

\* The mappings of the caller as they are now: the iterator holds the caller's
\* own mappings when the list came through mure.request, copies otherwise.
CallerKeys(i) == IF b_entry = "request" THEN b_keys[i] ELSE b_given[i]

\* ResponseIterator.__init__ of utils.py, called by request() / _request().
BatchInit ==
  /\ b_entry \in {"request", "method"}
  /\ b_given \in UNION {[1 .. n -> SUBSET {"method", "url"}] : n \in 0 .. MaxN}
  /\ b_keys = [i \in DOMAIN b_given |->
                 IF b_entry = "request" THEN b_given[i] ELSE WithMethod(b_given[i])]
  /\ b_batch_size \in 1 .. MaxBatch
  /\ b_pc = "new"
  /\ b_start = 0
  /\ b_inflight = {}
  /\ b_results = <<>>
  /\ b_pos = 0
  /\ b_pending = Len(b_given)
  /\ b_started = {}
  /\ b_delivered = <<>>
  /\ b_sessions = 0
  /\ b_session = 0
  /\ b_sessionOf = [i \in DOMAIN b_given |-> 0]

\* Part II at rest, for the specifications of the other parts.
BatchIdle ==
  /\ b_entry = "request"
  /\ b_given = <<>>
  /\ b_keys = <<>>
  /\ b_batch_size = 1
  /\ b_pc = "idle"
  /\ b_start = 0
  /\ b_inflight = {}
  /\ b_results = <<>>
  /\ b_pos = 0
  /\ b_pending = 0
  /\ b_started = {}
  /\ b_delivered = <<>>
  /\ b_sessions = 0
  /\ b_session = 0
  /\ b_sessionOf = <<>>

\* next() while responses of the current chunk are left: the inner for loop of
\* _process_batches counts the response and yields it.
BYield ==
  /\ UNCHANGED notBatchVars
  /\ b_pc = "yielded"
  /\ b_pos < Len(CurrentBatch)
  /\ LET i == CurrentBatch[b_pos + 1] IN
       b_delivered' = Append(b_delivered, <<i, b_results[i]>>)
  /\ b_pos' = b_pos + 1
  /\ b_pending' = b_pending - 1
  /\ UNCHANGED <<b_entry, b_given, b_keys, b_batch_size, b_pc, b_start, b_inflight,
                 b_results, b_started, b_sessions, b_session, b_sessionOf>>

\* next() when the current chunk is used up and another is left: asyncio.run
\* runs _process_batch, which enters a new ClientSession; gather creates one
\* task per resource of the chunk and every task runs to its first
\* suspension: _process pops "method" and "url" and calls session.request, or
\* raises the KeyError, which gather hands through the async with, which
\* closes the session, to asyncio.run and asyncio.run to the consumer.
BBegin ==
  /\ UNCHANGED notBatchVars
  /\ b_pc \in {"new", "yielded"}
  /\ b_pos = Len(CurrentBatch)
  /\ b_start < Len(Batches)
  /\ LET batch == Batches[b_start + 1]
         members == {batch[j] : j \in 1 .. Len(batch)}
         raising == {i \in members : PopKeys(b_keys[i])[2]}
     IN
       /\ b_keys' = [i \in DOMAIN b_keys |->
                       IF i \in members THEN PopKeys(b_keys[i])[1] ELSE b_keys[i]]
       /\ b_started' = b_started \cup (members \ raising)
       /\ b_sessionOf' = [i \in DOMAIN b_sessionOf |->
                            IF i \in members \ raising THEN b_sessions + 1
                            ELSE b_sessionOf[i]]
       /\ IF raising = {}
            THEN b_pc' = "running" /\ b_inflight' = members /\ b_session' = b_sessions + 1
            ELSE b_pc' = "raised" /\ b_inflight' = {} /\ b_session' = 0
  /\ b_sessions' = b_sessions + 1
  /\ b_start' = b_start + 1
  /\ b_pos' = 0
  /\ b_results' = <<>>
  /\ UNCHANGED <<b_entry, b_given, b_batch_size, b_pending, b_delivered>>

\* The request of one task ends, with the server's response or with an
\* exception, which _process turns into a failed response.
BComplete(i) ==
  /\ UNCHANGED notBatchVars
  /\ b_pc = "running"
  /\ i \in b_inflight
  /\ \E response \in {BResponse(200, "OK", TRUE, "text")}
                     \cup {BResponse(0, Repr(error), FALSE, "") : error \in Errors} :
       b_results' = [j \in DOMAIN b_results \cup {i} |->
                       IF j = i THEN response ELSE b_results[j]]
  /\ b_inflight' = b_inflight \ {i}
  /\ UNCHANGED <<b_entry, b_given, b_keys, b_batch_size, b_pc, b_start, b_pos, b_pending,
                 b_started, b_delivered, b_sessions, b_session, b_sessionOf>>

\* A gather that returns as soon as the first task of the chunk has ended.
BReturn_Early ==
  /\ UNCHANGED notBatchVars
  /\ b_pc = "running"
  /\ CurrentBatch[1] \in DOMAIN b_results
  /\ LET i == CurrentBatch[1] IN
       b_delivered' = Append(b_delivered, <<i, b_results[i]>>)
  /\ b_pos' = 1
  /\ b_pending' = b_pending - 1
  /\ b_pc' = "yielded"
  /\ b_session' = 0
  /\ UNCHANGED <<b_entry, b_given, b_keys, b_batch_size, b_start, b_inflight, b_results,
                 b_started, b_sessions, b_sessionOf>>

\* Every task of the chunk has ended: gather returns the responses in the
\* order of the chunk, the async with closes the session of the chunk, and
\* _process_batches counts and yields the first response.
BReturn ==
  /\ UNCHANGED notBatchVars
  /\ b_pc = "running"
  /\ b_inflight = {}
  /\ LET i == CurrentBatch[1] IN
       b_delivered' = Append(b_delivered, <<i, b_results[i]>>)
  /\ b_pos' = 1
  /\ b_pending' = b_pending - 1
  /\ b_pc' = "yielded"
  /\ b_session' = 0
  /\ UNCHANGED <<b_entry, b_given, b_keys, b_batch_size, b_start, b_inflight, b_results,
                 b_started, b_sessions, b_sessionOf>>

\* next() when no chunk is left: the generator ends.
BExhaust ==
  /\ UNCHANGED notBatchVars
  /\ b_pc \in {"new", "yielded"}
  /\ b_pos = Len(CurrentBatch)
  /\ b_start = Len(Batches)
  /\ b_pc' = "exhausted"
  /\ UNCHANGED <<b_entry, b_given, b_keys, b_batch_size, b_start, b_inflight, b_results,
                 b_pos, b_pending, b_started, b_delivered, b_sessions, b_session,
                 b_sessionOf>>

BatchNext ==
  \/ BYield
  \/ BBegin
  \/ \E i \in DOMAIN b_given : BComplete(i)
  \/ BReturn
  \/ BExhaust

\* A mapping a caller wrote: a dict keeps the order its keys were
\* inserted in, so it is the list of its <<key, value>> items; <<"None">> is
\* a field the resource does not have (resource.get(...) returns None).
NoMapping == <<"None">>

\* The dict with the given items.
Mapping(items) == <<"dict", items>>

\* The keys of the parameter dicts, in the order of str's "<".
MemKeys == <<"a", "b">>

\* The resources handed to the cache: mappings with method, url, optional
\* params (the same parameters written in both key orders) and an optional
\* timeout.
MemResources ==
  [method : {"GET", "POST"}, url : {"https://httpbin.org/get"},
   params : {NoMapping,
             Mapping(<<<<"a", "1">>, <<"b", "2">>>>),
             Mapping(<<<<"b", "2">>, <<"a", "1">>>>)},
   timeout : {"None", "10"}]

\* The responses handed to save().
MemResponses == {"response 1", "response 2"}

\* The items of a dict as json.dumps(..., sort_keys=True) writes them: by key.
sort_keys(items) ==
  LET Mentioned(key) == \E k \in 1 .. Len(items) : items[k][1] = key
      Item(key) == items[CHOOSE k \in 1 .. Len(items) : items[k][1] = key]
      Write[n \in 0 .. Len(MemKeys)] ==
        IF n = 0 THEN <<>>
        ELSE IF Mentioned(MemKeys[n]) THEN Append(Write[n - 1], Item(MemKeys[n]))
        ELSE Write[n - 1]
  IN Write[Len(MemKeys)]

\* The JSON text without sorting: the items in the order of the dict.
json_dumps_Unsorted(value) ==
  IF value = NoMapping THEN <<"null">> ELSE <<"object", value[2]>>

\* json.dumps(value, sort_keys=True) of an optional dict: null, or the object
\* with its members in the order of the keys.
json_dumps(value) ==
  IF value = NoMapping THEN <<"null">> ELSE <<"object", sort_keys(value[2])>>

\* An identifier that leaves the parameters out.
identify_resource_NoParams(resource) == <<resource.method, resource.url>>

\* An identifier that tells resources with different timeouts apart.
identify_resource_WithTimeout(resource) ==
  <<resource.method, resource.url, json_dumps(resource.params), resource.timeout>>

\* Cache.identify_resource: the JSON text of method, url, headers, params,
\* data and json of the resource with sorted keys; headers, data and json are
\* absent from every resource here (null in every text) and "timeout" is not
\* part of the text.
identify_resource(resource) ==
  <<resource.method, resource.url, json_dumps(resource.params)>>

\* InMemoryCache.has
has(resource) == identify_resource(resource) \in DOMAIN m_cache

\* InMemoryCache.get: dict.get, None for a key that is not there
get(resource) ==
  IF identify_resource(resource) \in DOMAIN m_cache
    THEN m_cache[identify_resource(resource)]
    ELSE "None"

\* A save that keeps what is already stored under the identifier.
save_KeepFirst(resource, response) ==
  [id \in DOMAIN m_cache \cup {identify_resource(resource)} |->
     IF id \in DOMAIN m_cache THEN m_cache[id] ELSE response]

\* InMemoryCache.save: self._cache[identifier] = response; the dict after it.
save(resource, response) ==
  [id \in DOMAIN m_cache \cup {identify_resource(resource)} |->
     IF id = identify_resource(resource) THEN response ELSE m_cache[id]]

\* InMemoryCache.__init__
MemInit ==
  /\ m_cache = <<>>
  /\ m_saves = <<>>

\* Part III at rest, for the specifications of the other parts.
MemIdle ==
  /\ m_cache = <<>>
  /\ m_saves = <<>>

\* A caller saves a response for a resource.
MemSave ==
  /\ UNCHANGED notMemVars
  /\ Len(m_saves) < MaxSaves
  /\ \E resource \in MemResources, response \in MemResponses :
       /\ m_cache' = save(resource, response)
       /\ m_saves' = Append(m_saves, <<resource, response>>)

MemNext == MemSave

\* --------------------------------------------------- Part IV: models.py
\* Text is a sequence of characters.  The characters that occur, with their
\* code points.
Ord == [ch \in {" ", "/", "1", "2", ":", "A", "B", "a", "b"} |->
          CASE ch = " " -> 32 [] ch = "/" -> 47 [] ch = "1" -> 49 [] ch = "2" -> 50
            [] ch = ":" -> 58 [] ch = "A" -> 65 [] ch = "B" -> 66
            [] ch = "a" -> 97 [] ch = "b" -> 98]

\* str.lower and str.upper, character by character
LowerChar(ch) == CASE ch = "A" -> "a" [] ch = "B" -> "b" [] OTHER -> ch
UpperChar(ch) == CASE ch = "a" -> "A" [] ch = "b" -> "B" [] OTHER -> ch
Lower(text) == [i \in 1 .. Len(text) |-> LowerChar(text[i])]
Upper(text) == [i \in 1 .. Len(text) |-> UpperChar(text[i])]

\* str.strip: without the leading and the trailing blanks
RECURSIVE Strip(_)
Strip(text) ==
  IF text = <<>> THEN text
  ELSE IF Head(text) = " " THEN Strip(Tail(text))
  ELSE IF text[Len(text)] = " " THEN Strip(SubSeq(text, 1, Len(text) - 1))
  ELSE text

\* The order of str: text < other
RECURSIVE Less(_, _)
Less(text, other) ==
  IF other = <<>> THEN FALSE
  ELSE IF text = <<>> THEN TRUE
  ELSE IF Head(text) = Head(other) THEN Less(Tail(text), Tail(other))
  ELSE Ord[Head(text)] < Ord[Head(other)]

\* A dict is the sequence of its <<key, value>> items in insertion order.
Keys(dict) == {dict[i][1] : i \in 1 .. Len(dict)}

\* dict[key] for a key of the dict
Value(dict, key) == dict[CHOOSE i \in 1 .. Len(dict) : dict[i][1] = key][2]

\* dict[key] = value: the item is replaced where it is, or added at the end.
SetItem(dict, key, value) ==
  IF key \in Keys(dict)
    THEN [i \in 1 .. Len(dict) |-> IF dict[i][1] = key THEN <<key, value>> ELSE dict[i]]
    ELSE Append(dict, <<key, value>>)

\* sorted(value.items(), key=lambda item: str(item[0])) of a dict
RECURSIVE SortedItems(_)
SortedItems(dict) ==
  IF dict = <<>> THEN <<>>
  ELSE LET i == CHOOSE i \in 1 .. Len(dict) :
                  \A j \in 1 .. Len(dict) : j = i \/ Less(dict[i][1], dict[j][1])
       IN <<dict[i]>> \o SortedItems(SubSeq(dict, 1, i - 1) \o SubSeq(dict, i + 1, Len(dict)))

\* Python's None and a value that is not None
None == <<>>
Some(value) == <<value>>

\* urllib.parse.parse_qs of the query of the URL, given as its key=value pairs
\* in the order of the text: key -> list of values; blank values are dropped.
RECURSIVE parse_qs(_)
parse_qs(query) ==
  IF query = <<>> THEN <<>>
  ELSE LET before == parse_qs(SubSeq(query, 1, Len(query) - 1))
           key == query[Len(query)][1]
           value == query[Len(query)][2]
       IN IF value = <<>> THEN before
          ELSE IF key \in Keys(before)
            THEN SetItem(before, key, Append(Value(before, key), value))
            ELSE SetItem(before, key, <<value>>)

\* Request.method
method(request) == Upper(Strip(request.method))

\* Request.scheme: urlparse hands the scheme out in lower case
scheme(request) == Lower(request.scheme)

\* A network location that is taken as it is written.
netloc_Verbatim(request) == request.netloc

\* Request.netloc
netloc(request) == Lower(request.netloc)

\* Request.path
path(request) == request.path

\* Request.url: f"{self.scheme}://{self.netloc}{self.path}"
url(request) == scheme(request) \o <<":", "/", "/">> \o netloc(request) \o path(request)

\* The dict comprehension of Request.headers over the first n items.
RECURSIVE HeaderItems(_, _)
HeaderItems(given, n) ==
  IF n = 0 THEN <<>>
  ELSE SetItem(HeaderItems(given, n - 1), Lower(Strip(given[n][1])), given[n][2])

\* Request.headers
headers(request) ==
  IF request.headers = None THEN None
  ELSE Some(HeaderItems(request.headers[1], Len(request.headers[1])))

\* The loop of Request.params over the first n items of self._params.
RECURSIVE MergeParams(_, _, _)
MergeParams(parsed, given, n) ==
  IF n = 0 THEN parsed
  ELSE LET before == MergeParams(parsed, given, n - 1)
           key == given[n][1]
           value == given[n][2]
       IN IF key \in Keys(before)
            THEN SetItem(before, key, Append(Value(before, key), value))
            ELSE SetItem(before, key, <<value>>)

\* Request.params
params(request) ==
  LET parsed == parse_qs(request.query) IN
    IF request.params = None /\ parsed = <<>> THEN None
    ELSE IF request.params # None
      THEN Some(MergeParams(parsed, request.params[1], Len(request.params[1])))
      ELSE Some(parsed)

\* Request._normalize of headers and params: None stays None, a mapping
\* becomes the mapping of its items sorted by key; its values (text, lists of
\* text) stay as they are.
normalize(value) == IF value = None THEN None ELSE Some(SortedItems(value[1]))

\* Request.sha256: the digest of the JSON text of the record with sorted keys.
\* Different texts have different digests; the digest stands for the text.
sha256(request) ==
  [method |-> method(request), url |-> url(request),
   headers |-> normalize(headers(request)), params |-> normalize(params(request)),
   data |-> None, json |-> None]

\* The sequences over S of at most n elements.
SeqsUpTo(S, n) == UNION {[1 .. k -> S] : k \in 0 .. n}

\* The dicts among them: no key twice.
Dicts(S, n) ==
  {d \in SeqsUpTo(S, n) : \A i, j \in 1 .. Len(d) : d[i][1] = d[j][1] => i = j}

\* A GET-like request without query, params and headers.
PlainRequest ==
  [method |-> <<"a">>, scheme |-> <<"a">>, netloc |-> <<"b">>, path |-> <<"/", "a">>,
   query |-> <<>>, params |-> None, headers |-> None]

\* Requests that differ in method and URL.
UrlRequests ==
  {[PlainRequest EXCEPT !.method = m, !.scheme = s, !.netloc = h, !.path = p] :
     m \in {<<"a">>, <<"A">>, <<" ", "a">>, <<"b">>}, s \in {<<"a">>, <<"A">>},
     h \in {<<"b">>, <<"B">>}, p \in {<<"/", "a">>, <<"/", "A">>}}

\* The key=value pairs of queries and params.
ParamItems == {<<<<"a">>, <<"1">>>>, <<<<"a">>, <<"2">>>>, <<<<"b">>, <<"1">>>>}

\* Requests that differ in the query of the URL and in params.
ParamRequests ==
  {[PlainRequest EXCEPT !.query = q, !.params = ps] :
     q \in SeqsUpTo(ParamItems, MaxQuery),
     ps \in {None} \cup {Some(d) : d \in Dicts(ParamItems, MaxQuery)}}

\* The entries of headers mappings: names that differ in case and blanks.
HeaderEntries ==
  {<<name, value>> : name \in {<<"a">>, <<"A">>, <<" ", "a">>, <<"b">>},
                     value \in {<<"1">>, <<"2">>}}

\* Requests that differ in their headers.
HeaderRequests ==
  {[PlainRequest EXCEPT !.headers = hs] :
     hs \in {None} \cup {Some(d) : d \in Dicts(HeaderEntries, MaxHeaders)}}

\* Two requests are constructed.
HashInit ==
  /\ \E family \in {UrlRequests, ParamRequests, HeaderRequests} :
       f_a \in family /\ f_b \in family
  /\ f_sha = <<>>

\* Part IV at rest, for the specifications of the other parts.
HashIdle ==
  /\ f_a = PlainRequest
  /\ f_b = PlainRequest
  /\ f_sha = <<>>

\* sha256() is called on both requests.
Hash ==
  /\ UNCHANGED notHashVars
  /\ f_sha = <<>>
  /\ f_sha' = <<sha256(f_a), sha256(f_b)>>
  /\ UNCHANGED <<f_a, f_b>>

HashNext == Hash

\* ------------------------------------- Part V: the dispatcher with a gate
\* The response the ResponseIterator handed over at an index.
LazyResponse(p) == (CHOOSE item \in {delivered[k] : k \in 1 .. Len(delivered)} : item[1] = p)[2]

\* The outcome of the HTTP call of an index, for the server behaviour the
\* drained run of the ResponseIterator met: the error it was handed for that
\* index, the server's response otherwise.
Fetched(p) ==
  IF LazyResponse(p).status = 0
    THEN Response(0, LazyResponse(p).reason, FALSE, "", "")
    ELSE FromTransport(ServerEntry(requests[p]))

\* Part V at rest.
EagerIdle ==
  /\ e_pc = "idle"
  /\ e_state = <<>>
  /\ e_slots = <<>>
  /\ e_cache = <<>>
  /\ e_cursor = 0
  /\ e_sent = {}
  /\ e_delivered = <<>>

\* The dispatcher is given the list of a drained first run, the same batch
\* size and, if that run had a cache, an empty cache.  Every worker is
\* scheduled at once: each computes its fingerprint, misses the empty cache
\* and queues for the gate.
EagerStart ==
  /\ UNCHANGED notEagerVars
  /\ e_pc = "idle"
  /\ pc = "exhausted"
  /\ run = 1
  /\ batch_size >= 1
  /\ e_pc' = "running"
  /\ e_state' = [p \in Priorities |-> "gate"]
  /\ UNCHANGED <<e_slots, e_cache, e_cursor, e_sent, e_delivered>>

\* A worker acquires the gate and performs its HTTP call.  The workers queue
\* for the gate in the order of their indices and are let through in that
\* order.
EagerAcquire(p) ==
  /\ UNCHANGED notEagerVars
  /\ e_pc = "running"
  /\ e_state[p] = "gate"
  /\ \A q \in Priorities : e_state[q] = "gate" => p <= q
  /\ Cardinality({q \in Priorities : e_state[q] = "sending"}) < batch_size
  /\ e_state' = [e_state EXCEPT ![p] = "sending"]
  /\ e_sent' = e_sent \cup {p}
  /\ UNCHANGED <<e_pc, e_slots, e_cache, e_cursor, e_delivered>>

\* The HTTP call of a worker ends: the worker releases the gate, puts the
\* response into the cache if there is one, and puts it into its slot.
EagerComplete(p) ==
  /\ UNCHANGED notEagerVars
  /\ e_pc = "running"
  /\ e_state[p] = "sending"
  /\ e_state' = [e_state EXCEPT ![p] = "done"]
  /\ e_slots' = [q \in DOMAIN e_slots \cup {p} |-> IF q = p THEN Fetched(p) ELSE e_slots[q]]
  /\ e_cache' = IF cacheOn
                  THEN [key \in DOMAIN e_cache \cup {requests[p]} |->
                          IF key = requests[p] THEN Fetched(p) ELSE e_cache[key]]
                  ELSE e_cache
  /\ UNCHANGED <<e_pc, e_cursor, e_sent, e_delivered>>

\* The consumer pulls: the response of the slot at the cursor, once it is put.
EagerPull ==
  /\ UNCHANGED notEagerVars
  /\ e_pc = "running"
  /\ e_cursor < N
  /\ e_state[e_cursor] = "done"
  /\ e_delivered' = Append(e_delivered, e_slots[e_cursor])
  /\ e_cursor' = e_cursor + 1
  /\ UNCHANGED <<e_pc, e_state, e_slots, e_cache, e_sent>>

\* The consumer pulls at cursor N: exhaustion.
EagerExhaust ==
  /\ UNCHANGED notEagerVars
  /\ e_pc = "running"
  /\ e_cursor = N
  /\ e_pc' = "exhausted"
  /\ UNCHANGED <<e_state, e_slots, e_cache, e_cursor, e_sent, e_delivered>>

EagerNext ==
  \/ EagerStart
  \/ \E p \in Priorities : EagerAcquire(p)
  \/ \E p \in Priorities : EagerComplete(p)
  \/ EagerPull
  \/ EagerExhaust

\* ------------------------------------- Part VI: queue.py, consumption.py
\* How a call ends: with a response, with None, or with an exception.
Returned(response) == <<"response", response>>
ReturnedNone == <<"None", 0>>
Raised(exception) == <<exception, 0>>

\* The priorities of a Queue / the consumables of a new Consumption.
Slots == 0 .. q_total - 1

\* An is_done that only looks at what is scheduled.
is_done_ScheduledOnly == q_scheduled = {}

\* Consumption.is_done
is_done == q_consumables = {} /\ q_scheduled = {}

\* A Consumption that schedules the largest unscheduled priority first.
anext_priority_Largest ==
  LET unscheduled == q_consumables \ q_scheduled IN
    IF unscheduled = {} THEN -1
    ELSE CHOOSE p \in unscheduled : \A other \in unscheduled : p >= other

\* Consumption.anext_priority: the priority it returns, -1 for None
anext_priority ==
  LET unscheduled == q_consumables \ q_scheduled IN
    IF unscheduled = {} THEN -1
    ELSE CHOOSE p \in unscheduled : \A other \in unscheduled : p <= other

\* Queue.empty
empty == q_items = <<>>

\* item < other for two (priority, response) tuples: the priorities decide
\* if they differ; Response defines no ordering, so two different responses
\* of one priority raise TypeError; a tuple is not less than itself.
Lt(item, other) ==
  IF item[1] # other[1] THEN (IF item[1] < other[1] THEN "true" ELSE "false")
  ELSE IF item[2] = other[2] THEN "false"
  ELSE "TypeError"

\* The heap with the items at (0-based) positions i and j exchanged.
Swap(heap, i, j) == [heap EXCEPT ![i + 1] = heap[j + 1], ![j + 1] = heap[i + 1]]

\* heapq's siftdown: the item at pos moves towards startpos while it is less
\* than its parent.  The result is <<heap, TRUE>>, or <<heap, FALSE>> with the
\* heap as it is when a comparison raises.
RECURSIVE siftdown(_, _, _)
siftdown(heap, startpos, pos) ==
  IF pos <= startpos THEN <<heap, TRUE>>
  ELSE LET parentpos == (pos - 1) \div 2
           less == Lt(heap[pos + 1], heap[parentpos + 1])
       IN  IF less = "TypeError" THEN <<heap, FALSE>>
           ELSE IF less = "false" THEN <<heap, TRUE>>
           ELSE siftdown(Swap(heap, pos, parentpos), startpos, parentpos)

\* The first loop of heapq's siftup: the smaller child moves up until pos is
\* a leaf.  The result is <<heap, no comparison raised, pos>>.
RECURSIVE bubble(_, _)
bubble(heap, pos) ==
  IF pos >= Len(heap) \div 2 THEN <<heap, TRUE, pos>>
  ELSE LET childpos == 2 * pos + 1
           less == IF childpos + 1 < Len(heap)
                     THEN Lt(heap[childpos + 1], heap[childpos + 2]) ELSE "true"
       IN  IF less = "TypeError" THEN <<heap, FALSE, pos>>
           ELSE LET child == IF less = "true" THEN childpos ELSE childpos + 1
                IN  bubble(Swap(heap, pos, child), child)

\* heapq's siftup
siftup(heap, pos) ==
  LET up == bubble(heap, pos)
  IN  IF up[2] THEN siftdown(up[1], pos, up[3]) ELSE <<up[1], FALSE>>

\* PriorityQueue._put, heapq.heappush: <<heap, no comparison raised>>
heappush(heap, item) == siftdown(Append(heap, item), 0, Len(heap))

\* PriorityQueue._get, heapq.heappop of a heap that is not empty:
\* <<heap, no comparison raised, the item popped>>
heappop(heap) ==
  LET rest == SubSeq(heap, 1, Len(heap) - 1)
  IN  IF rest = <<>> THEN <<rest, TRUE, heap[Len(heap)]>>
      ELSE LET sifted == siftup([rest EXCEPT ![1] = heap[Len(heap)]], 0)
           IN  <<sifted[1], sifted[2], heap[1]>>

\* Queue.__init__ / Consumption.__init__
QueueInit ==
  /\ q_total \in 0 .. MaxSlots
  /\ q_consumables = 0 .. q_total - 1
  /\ q_scheduled = {}
  /\ q_items = <<>>
  /\ q_events = {}
  /\ q_blocked = <<>>
  /\ q_other = <<>>
  /\ q_puts = <<>>
  /\ q_calls = <<>>

\* Part VI at rest, for the specifications of the other parts.
QueueIdle ==
  /\ q_total = 0
  /\ q_consumables = {}
  /\ q_scheduled = {}
  /\ q_items = <<>>
  /\ q_events = {}
  /\ q_blocked = <<>>
  /\ q_other = <<>>
  /\ q_puts = <<>>
  /\ q_calls = <<>>

\* Queue.put: the item goes into the priority queue, then the event of the
\* priority is set.  The t-th put carries response t.  A TypeError of the
\* heap leaves the item in the heap and the event as it was.
SlotPut(p) ==
  /\ Len(q_puts) < MaxPuts
  /\ p \in Slots
  /\ LET response == Len(q_puts) + 1
         pushed == heappush(q_items, <<p, response>>)
     IN  /\ q_items' = pushed[1]
         /\ q_events' = IF pushed[2] THEN q_events \cup {p} ELSE q_events
         /\ q_puts' = Append(q_puts, <<p, response,
                                       IF pushed[2] THEN ReturnedNone ELSE Raised("TypeError")>>)
  /\ UNCHANGED <<q_total, q_consumables, q_scheduled, q_blocked, q_other, q_calls>>

\* The rest of Queue.get once the event of the priority is set and the
\* priority queue has an item: the item at the top of the heap is taken (a
\* TypeError of the heap loses it); a different priority raises ValueError;
\* aconsume removes the priority from scheduled (KeyError if it is not there)
\* and from consumables.
Complete(op, k, scheduled) ==
  LET popped == heappop(q_items)
      outcome == IF ~popped[2] THEN Raised("TypeError")
                 ELSE IF popped[3][1] # k THEN Raised("ValueError")
                 ELSE IF k \notin scheduled THEN Raised("KeyError")
                 ELSE Returned(popped[3][2])
  IN  /\ q_items' = popped[1]
      /\ q_calls' = Append(q_calls, <<op, k, outcome>>)
      /\ q_scheduled' = IF outcome[1] = "response" THEN scheduled \ {k} ELSE scheduled
      /\ q_consumables' = IF outcome[1] = "response" THEN q_consumables \ {k}
                          ELSE q_consumables

\* Queue.get from the wait for the event on: it goes through if the event is
\* set and there is an item, and suspends the consumer otherwise.
WaitAndComplete(op, k, scheduled) ==
  IF k \in q_events /\ q_items # <<>>
    THEN Complete(op, k, scheduled) /\ UNCHANGED q_blocked
    ELSE /\ q_blocked' = <<op, k>>
         /\ q_scheduled' = scheduled
         /\ UNCHANGED <<q_consumables, q_items, q_calls>>

\* The consumer calls Queue.get(k).
SlotGet(k) ==
  /\ q_blocked = <<>>
  /\ Len(q_calls) < MaxCalls
  /\ k \in Slots
  /\ IF is_done
       THEN /\ q_calls' = Append(q_calls, <<"get", k, ReturnedNone>>)
            /\ UNCHANGED <<q_consumables, q_scheduled, q_items, q_blocked>>
       ELSE WaitAndComplete("get", k, q_scheduled)
  /\ UNCHANGED <<q_total, q_events, q_other, q_puts>>

\* The consumer calls Queue.get_next().
SlotGetNext ==
  /\ q_blocked = <<>>
  /\ Len(q_calls) < MaxCalls
  /\ IF is_done \/ anext_priority = -1
       THEN /\ q_calls' = Append(q_calls, <<"get_next", -1, ReturnedNone>>)
            /\ UNCHANGED <<q_consumables, q_scheduled, q_items, q_blocked>>
       ELSE WaitAndComplete("get_next", anext_priority, q_scheduled \cup {anext_priority})
  /\ UNCHANGED <<q_total, q_events, q_other, q_puts>>

\* The event the consumer waits for is set and the queue has an item: the
\* suspended call goes on.
SlotResume ==
  /\ q_blocked # <<>>
  /\ q_blocked[2] \in q_events
  /\ q_items # <<>>
  /\ Complete(q_blocked[1], q_blocked[2], q_scheduled)
  /\ q_blocked' = <<>>
  /\ UNCHANGED <<q_total, q_events, q_other, q_puts>>

\* A second consumer calls Queue.get_next() while the first may be suspended
\* in its call.
OtherGetNext ==
  /\ q_other = <<>>
  /\ Len(q_calls) < MaxCalls
  /\ IF is_done \/ anext_priority = -1
       THEN /\ q_calls' = Append(q_calls, <<"get_next", -1, ReturnedNone>>)
            /\ UNCHANGED <<q_consumables, q_scheduled, q_items, q_other>>
       ELSE IF anext_priority \in q_events /\ q_items # <<>>
         THEN /\ Complete("get_next", anext_priority, q_scheduled \cup {anext_priority})
              /\ UNCHANGED q_other
         ELSE /\ q_other' = <<"get_next", anext_priority>>
              /\ q_scheduled' = q_scheduled \cup {anext_priority}
              /\ UNCHANGED <<q_consumables, q_items, q_calls>>
  /\ UNCHANGED <<q_total, q_events, q_blocked, q_puts>>

\* The event the second consumer waits for is set and the queue has an item:
\* its suspended call goes on.
OtherResume ==
  /\ q_other # <<>>
  /\ q_other[2] \in q_events
  /\ q_items # <<>>
  /\ Complete(q_other[1], q_other[2], q_scheduled)
  /\ q_other' = <<>>
  /\ UNCHANGED <<q_total, q_events, q_blocked, q_puts>>

\* The workers put, and two consumers call get_next().
ConsumersNext ==
  \/ \E p \in Slots : SlotPut(p) /\ UNCHANGED notQueueVars
  \/ SlotGetNext /\ UNCHANGED notQueueVars
  \/ SlotResume /\ UNCHANGED notQueueVars
  \/ OtherGetNext /\ UNCHANGED notQueueVars
  \/ OtherResume /\ UNCHANGED notQueueVars

QueueNext ==
  \/ \E p \in Slots : SlotPut(p) /\ UNCHANGED notQueueVars
  \/ \E k \in Slots : SlotGet(k) /\ UNCHANGED notQueueVars
  \/ SlotGetNext /\ UNCHANGED notQueueVars
  \/ SlotResume /\ UNCHANGED notQueueVars

\* A caller calls Consumption.anext_priority().
ConsNext ==
  /\ Len(q_calls) < MaxCalls
  /\ q_calls' = Append(q_calls, <<"anext_priority", anext_priority, ReturnedNone>>)
  /\ q_scheduled' = IF anext_priority = -1 THEN q_scheduled
                    ELSE q_scheduled \cup {anext_priority}
  /\ UNCHANGED <<q_total, q_consumables, q_items, q_events, q_blocked, q_other, q_puts>>

\* A caller calls Consumption.aconsume(priority): set.remove raises KeyError
\* for a priority that is not scheduled and leaves both sets as they are.
ConsConsume(p) ==
  /\ Len(q_calls) < MaxCalls
  /\ p \in -1 .. q_total
  /\ IF p \in q_scheduled
       THEN /\ q_scheduled' = q_scheduled \ {p}
            /\ q_consumables' = q_consumables \ {p}
            /\ q_calls' = Append(q_calls, <<"aconsume", p, ReturnedNone>>)
       ELSE /\ q_calls' = Append(q_calls, <<"aconsume", p, Raised("KeyError")>>)
            /\ UNCHANGED <<q_scheduled, q_consumables>>
  /\ UNCHANGED <<q_total, q_items, q_events, q_blocked, q_other, q_puts>>

ConsumptionNext ==
  \/ ConsNext /\ UNCHANGED notQueueVars
  \/ \E p \in -1 .. MaxSlots + 1 : ConsConsume(p) /\ UNCHANGED notQueueVars


\* ---------------------------------------------- Part VII: cache/storage.py
\* Python values with their types.
PyNone == <<"None", "">>
PyStr(text) == <<"str", text>>
PyBytes(octets) == <<"bytes", octets>>
PyInt(n) == <<"int", n>>
PyBool(b) == <<"bool", b>>

\* bool(value)
truth(value) ==
  PyBool(CASE value[1] = "bool" -> value[2]
           [] value[1] = "int" -> value[2] # 0
           [] value[1] = "None" -> FALSE
           [] OTHER -> value[2] # "")

\* The responses that are saved: one of a server, with a header, and a failed
\* one without reason, encoding, headers and body.  A headers dict is the set
\* of its (name, value) items.
StoreResponses ==
  {[ok |-> PyBool(TRUE), status |-> PyInt(200), reason |-> PyStr("OK"),
    url |-> PyStr("https://httpbin.org/get"), content |-> PyBytes("body"),
    encoding |-> PyStr("utf-8"), headers |-> {<<"content-type", "text/html">>}],
   [ok |-> PyBool(FALSE), status |-> PyInt(0), reason |-> PyNone,
    url |-> PyStr(""), content |-> PyBytes(""),
    encoding |-> PyNone, headers |-> {}]}

\* The requests the workers use: the second has the fingerprint of the first.
StoreRequests ==
  {PlainRequest, [PlainRequest EXCEPT !.method = <<"A">>],
   [PlainRequest EXCEPT !.path = <<"/", "b">>]}

\* request.sha256() of these requests
Fingerprints == {sha256(request) : request \in StoreRequests}

\* The items of a dict, one after the other.
RECURSIVE ItemList(_)
ItemList(items) ==
  IF items = {} THEN <<>>
  ELSE LET item == CHOOSE i \in items : TRUE IN <<item>> \o ItemList(items \ {item})

\* The dict with the items of a list of (name, value) pairs.
DictOf(pairs) == {pairs[i] : i \in 1 .. Len(pairs)}

\* orjson.dumps(response.headers).decode("utf-8"): the text of a JSON object, given as
\* the list of its members.
orjson_dumps(mapping) == PyStr(ItemList(mapping))

\* orjson.loads of the text of a JSON object
orjson_loads(text) == DictOf(text[2])

\* msgpack with raw=True: str and bin both come back as bytes.
msgpack_unpack_Raw(packed) ==
  CASE packed[1] = "nil" -> PyNone
    [] packed[1] = "true" -> PyBool(TRUE)
    [] packed[1] = "false" -> PyBool(FALSE)
    [] packed[1] = "int" -> PyInt(packed[2])
    [] OTHER -> PyBytes(packed[2])

\* msgpack's format of a value: nil, true, false, int, str, bin.
msgpack_pack(value) ==
  CASE value[1] = "None" -> <<"nil", "">>
    [] value[1] = "bool" -> <<IF value[2] THEN "true" ELSE "false", "">>
    [] value[1] = "int" -> <<"int", value[2]>>
    [] value[1] = "str" -> <<"str", value[2]>>
    [] value[1] = "bytes" -> <<"bin", value[2]>>

\* The value msgpack reads from a format.
msgpack_unpack(packed) ==
  CASE packed[1] = "nil" -> PyNone
    [] packed[1] = "true" -> PyBool(TRUE)
    [] packed[1] = "false" -> PyBool(FALSE)
    [] packed[1] = "int" -> PyInt(packed[2])
    [] packed[1] = "str" -> PyStr(packed[2])
    [] packed[1] = "bin" -> PyBytes(packed[2])

\* msgpack's map of a dict of str to str: the packed pairs, one after the other.
msgpack_pack_map(mapping) ==
  LET pairs == ItemList(mapping) IN
    [i \in 1 .. Len(pairs) |-> <<msgpack_pack(PyStr(pairs[i][1])), msgpack_pack(PyStr(pairs[i][2]))>>]

\* The dict msgpack reads from a map.
msgpack_unpack_map(packed) ==
  {<<msgpack_unpack(packed[i][1])[2], msgpack_unpack(packed[i][2])[2]>> : i \in 1 .. Len(packed)}

\* msgpack.dump of the dict FileStorage.asave_response builds.
msgpack_dump(response) ==
  [url |-> msgpack_pack(response.url), headers |-> msgpack_pack_map(response.headers),
   status |-> msgpack_pack(response.status), ok |-> msgpack_pack(response.ok),
   reason |-> msgpack_pack(response.reason), content |-> msgpack_pack(response.content),
   encoding |-> msgpack_pack(response.encoding)]

\* The Response FileStorage.aget_response builds from msgpack.load.
msgpack_load(file) ==
  [ok |-> truth(msgpack_unpack(file.ok)), status |-> msgpack_unpack(file.status),
   reason |-> msgpack_unpack(file.reason), url |-> msgpack_unpack(file.url),
   content |-> msgpack_unpack(file.content), encoding |-> msgpack_unpack(file.encoding),
   headers |-> msgpack_unpack_map(file.headers)]

\* The SQLite value of a bound parameter: NULL, INTEGER, TEXT or BLOB; a
\* bool is bound as the integer 1 or 0.
sqlite_bind(value) ==
  CASE value[1] = "None" -> <<"NULL", "">>
    [] value[1] = "bool" -> <<"INTEGER", IF value[2] THEN 1 ELSE 0>>
    [] value[1] = "int" -> <<"INTEGER", value[2]>>
    [] value[1] = "str" -> <<"TEXT", value[2]>>
    [] value[1] = "bytes" -> <<"BLOB", value[2]>>

\* The Python value of a column of a fetched row.
sqlite_column(column) ==
  CASE column[1] = "NULL" -> PyNone
    [] column[1] = "INTEGER" -> PyInt(column[2])
    [] column[1] = "TEXT" -> PyStr(column[2])
    [] column[1] = "BLOB" -> PyBytes(column[2])

\* The parameters SQLiteStorage.asave_response hands to the query
\* "save_response": the fingerprint, the headers as JSON text, and the other
\* attributes of the response.
SaveParams(request, response) ==
  [key |-> sha256(request), url |-> response.url,
   headers |-> orjson_dumps(response.headers), status |-> response.status,
   ok |-> response.ok, reason |-> response.reason, content |-> response.content,
   encoding |-> response.encoding]

\* The query "save_response": the table after the row of the key is written,
\* in place of an earlier row of the key.
save_response(table, parameters) ==
  [table EXCEPT ![parameters.key] =
     Some([url |-> sqlite_bind(parameters.url), headers |-> sqlite_bind(parameters.headers),
           status |-> sqlite_bind(parameters.status), ok |-> sqlite_bind(parameters.ok),
           reason |-> sqlite_bind(parameters.reason),
           content |-> sqlite_bind(parameters.content),
           encoding |-> sqlite_bind(parameters.encoding)])]

\* The query "get_response": the record of the row of the key, or None.
get_response(table, key) ==
  IF table[key] = None THEN None
  ELSE Some([column \in DOMAIN table[key][1] |-> sqlite_column(table[key][1][column])])

\* The Response SQLiteStorage.aget_response builds from the record.
FromRecord(record) ==
  [ok |-> truth(record.ok), status |-> record.status, reason |-> record.reason,
   url |-> record.url, content |-> record.content, encoding |-> record.encoding,
   headers |-> orjson_loads(record.headers)]

\* asave_response of the three storages, inside the lock: the storage after
\* the response is saved under the fingerprint of the request.
asave_response(backend, store, request, response) ==
  CASE backend = "memory" -> [store EXCEPT ![sha256(request)] = Some(response)]
    [] backend = "file" -> [store EXCEPT ![sha256(request)] = Some(msgpack_dump(response))]
    [] backend = "sqlite" -> save_response(store, SaveParams(request, response))

\* aget_response of the three storages, inside the lock: None, or the
\* Response for the fingerprint of the request.
aget_response(backend, store, request) ==
  CASE backend = "memory" -> store[sha256(request)]
    [] backend = "file" ->
         IF store[sha256(request)] = None THEN None
         ELSE Some(msgpack_load(store[sha256(request)][1]))
    [] backend = "sqlite" ->
         LET record == get_response(store, sha256(request)) IN
           IF record = None THEN None ELSE Some(FromRecord(record[1]))

\* The worker tasks.
Workers == 1 .. MaxWorkers

\* A lock that is never held.
locked_Never == FALSE

\* Lock.locked()
locked == s_holder # 0

\* The calls a worker makes.
StoreOps ==
  {<<"save", request, response>> : request \in StoreRequests, response \in StoreResponses}
  \cup {<<"get", request, CHOOSE response \in StoreResponses : TRUE>> : request \in StoreRequests}

\* A storage is created and set up.
StoreInit ==
  /\ s_backend \in {"memory", "file", "sqlite"}
  /\ s_store = [key \in Fingerprints |-> None]
  /\ s_holder = 0
  /\ s_waiters = <<>>
  /\ s_pc = [t \in Workers |-> "idle"]
  /\ s_op = [t \in Workers |-> <<"none", PlainRequest, CHOOSE response \in StoreResponses : TRUE>>]
  /\ s_log = <<>>
  /\ s_begun = 0

\* Part VII at rest, for the specifications of the other parts.
StoreIdle ==
  /\ s_backend = "memory"
  /\ s_store = [key \in Fingerprints |-> None]
  /\ s_holder = 0
  /\ s_waiters = <<>>
  /\ s_pc = [t \in Workers |-> "idle"]
  /\ s_op = [t \in Workers |-> <<"none", PlainRequest, CHOOSE response \in StoreResponses : TRUE>>]
  /\ s_log = <<>>
  /\ s_begun = 0

\* The body of the critical section of the call op.
Perform(op) ==
  IF op[1] = "save"
    THEN /\ s_store' = asave_response(s_backend, s_store, op[2], op[3])
         /\ s_log' = Append(s_log, <<"save", sha256(op[2]), Some(op[3])>>)
    ELSE /\ s_log' = Append(s_log, <<"get", sha256(op[2]), aget_response(s_backend, s_store, op[2])>>)
         /\ UNCHANGED s_store

\* Task t calls asave_response or aget_response.  Lock.acquire returns at
\* once if the lock is free and nobody waits for it, and queues the task
\* otherwise.  MemoryStorage and FileStorage do not await inside the lock:
\* the call runs to its end.  SQLiteStorage awaits the database.
StoreCall(t, op) ==
  /\ s_pc[t] = "idle"
  /\ s_begun < MaxOps
  /\ s_begun' = s_begun + 1
  /\ IF ~locked /\ s_waiters = <<>>
       THEN IF s_backend = "sqlite"
              THEN /\ s_holder' = t
                   /\ s_pc' = [s_pc EXCEPT ![t] = "inside"]
                   /\ s_op' = [s_op EXCEPT ![t] = op]
                   /\ UNCHANGED <<s_store, s_log, s_waiters>>
              ELSE /\ Perform(op)
                   /\ UNCHANGED <<s_holder, s_pc, s_op, s_waiters>>
       ELSE /\ s_waiters' = Append(s_waiters, t)
            /\ s_pc' = [s_pc EXCEPT ![t] = "waiting"]
            /\ s_op' = [s_op EXCEPT ![t] = op]
            /\ UNCHANGED <<s_store, s_log, s_holder>>
  /\ UNCHANGED s_backend

\* The database has carried out the statement of task t: the call builds its
\* result and leaves the lock.
StoreDb(t) ==
  /\ s_pc[t] = "inside"
  /\ Perform(s_op[t])
  /\ s_pc' = [s_pc EXCEPT ![t] = "idle"]
  /\ s_holder' = 0
  /\ UNCHANGED <<s_backend, s_waiters, s_op, s_begun>>

\* The lock was released: the task that has waited longest gets it.
StoreWake ==
  /\ s_waiters # <<>>
  /\ ~locked
  /\ s_holder' = Head(s_waiters)
  /\ s_pc' = [s_pc EXCEPT ![Head(s_waiters)] = "inside"]
  /\ s_waiters' = Tail(s_waiters)
  /\ UNCHANGED <<s_backend, s_store, s_op, s_log, s_begun>>

StoreNext ==
  \/ \E t \in Workers, op \in StoreOps : StoreCall(t, op) /\ UNCHANGED notStoreVars
  \/ \E t \in Workers : StoreDb(t) /\ UNCHANGED notStoreVars
  \/ StoreWake /\ UNCHANGED notStoreVars


Init == IterInit /\ BatchIdle /\ MemIdle /\ HashIdle /\ EagerIdle /\ QueueIdle /\ StoreIdle

Next == IterNext

Spec == Init /\ [][Next]_vars

\* Part I while the network is down: every send raises.
NextDown ==
  \/ FirstPull
  \/ \E p \in Priorities : TaskStart(p)
  \/ \E p \in Priorities : TaskError(p)
  \/ Deliver
  \/ NextPull
  \/ Drop
  \/ Rerun

SpecDown == Init /\ [][NextDown]_vars

InitBatch == BatchInit /\ IterIdle /\ MemIdle /\ HashIdle /\ EagerIdle /\ QueueIdle /\ StoreIdle

NextBatch == BatchNext

SpecBatch == InitBatch /\ [][NextBatch]_vars

InitMem == MemInit /\ IterIdle /\ BatchIdle /\ HashIdle /\ EagerIdle /\ QueueIdle /\ StoreIdle

NextMem == MemNext

SpecMem == InitMem /\ [][NextMem]_vars

InitHash == HashInit /\ IterIdle /\ BatchIdle /\ MemIdle /\ EagerIdle /\ QueueIdle /\ StoreIdle

NextHash == HashNext

SpecHash == InitHash /\ [][NextHash]_vars

\* A first run of the ResponseIterator, and after it has been drained a run
\* of the dispatcher with a gate on the same list.  The sends that raise,
\* raise ConnectError.
NextEager ==
  \/ FirstPull
  \/ \E p \in Priorities : TaskStart(p)
  \/ \E p \in Priorities : TaskResponse(p)
  \/ \E p \in Priorities :
       TaskError(p) /\ \A item \in queue' : item[2].reason # Repr("ReadTimeout")
  \/ Deliver
  \/ NextPull
  \/ EagerNext

\* The lists a ResponseIterator can drain: every request can be built and
\* batch_size is at least 1.
InitEager ==
  /\ Init
  /\ batch_size >= 1
  /\ \A p \in Priorities : ~BuildRaises(requests[p])

SpecEager == InitEager /\ [][NextEager]_vars

InitQueue == QueueInit /\ IterIdle /\ BatchIdle /\ MemIdle /\ HashIdle /\ EagerIdle /\ StoreIdle

NextQueue == QueueNext

SpecQueue == InitQueue /\ [][NextQueue]_vars

NextCons == ConsumptionNext

SpecCons == InitQueue /\ [][NextCons]_vars

NextConsumers == ConsumersNext

SpecConsumers == InitQueue /\ [][NextConsumers]_vars

InitStore ==
  StoreInit /\ IterIdle /\ BatchIdle /\ MemIdle /\ HashIdle /\ EagerIdle /\ QueueIdle

NextStore == StoreNext

SpecStore == InitStore /\ [][NextStore]_vars

\* ================================================================== claims
\* The items the consumer has received in this run.
Delivered == {delivered[k] : k \in 1 .. Len(delivered)}

\* The tasks that were started and have not ended.
InFlight == {p \in Priorities : taskState[p] \in {"scheduled", "sending"}}

\* C1: order preservation: the k-th response handed to the consumer
\* (k = 0..N-1) was put by the worker of priority k and is a response to the
\* k-th request, whatever the order in which the workers complete.
C1_OrderPreservation ==
  \A k \in 1 .. Len(delivered) :
    /\ delivered[k][1] = k - 1
    /\ delivered[k][2].status = 0
         \/ (delivered[k][2].url = UrlOf(requests[k - 1])
             /\ delivered[k][2].content = ServerContent(requests[k - 1]))

\* A later worker had completed before response 0 was handed over.
C1_Witness ==
  /\ pc = "yielded"
  /\ Len(delivered) = 1
  /\ \E item \in queue : item[1] > 0 /\ item[2].status # 0

\* C2: length preservation: with batch_size >= 1, once every started worker
\* has ended (with a response or with an error) the consumer's pull is not
\* left waiting, and an exhausted iterator has yielded exactly N responses.
C2_LengthPreservation ==
  /\ (batch_size >= 1 /\ pc = "waiting" /\ InFlight = {}) => cursor \in events
  /\ pc = "exhausted" => Len(delivered) = N

\* C3: concurrency bound: the task table never holds more than batch_size
\* tasks, and at most batch_size started workers have not yet ended.
C3_ConcurrencyBound ==
  /\ Cardinality(tasks) <= batch_size
  /\ Cardinality(InFlight) <= batch_size
  /\ InFlight \subseteq tasks

\* batch_size workers are being sent at once while more requests wait.
C3_Witness ==
  /\ batch_size >= 2
  /\ Cardinality(tasks) = batch_size
  /\ \A p \in tasks : taskState[p] = "sending"
  /\ nextSched < N

\* C4: failure isolation: no worker dies of an error of its request; every
\* delivered position whose own send raised holds a failed response, and every
\* other delivered position holds the server's response to its own request.
C4_FailureIsolation ==
  /\ \A p \in Priorities : taskState[p] # "crashed"
  /\ \A item \in Delivered :
       IF item[1] \in raised
         THEN item[2].status = 0 /\ item[2].ok = FALSE
         ELSE item[2] = FromTransport(ServerEntry(requests[item[1]]))

\* C5: a response produced after session.send raised has status 0, ok false,
\* reason repr(error), an empty url and empty content; and every delivered
\* response with status 0 has ok false.
C5_FailedResponse ==
  /\ \A item \in queue \cup Delivered :
       item[1] \in raised =>
         \E error \in Errors :
           item[2] = [status |-> 0, ok |-> FALSE, reason |-> Repr(error),
                      url |-> "", content |-> ""]
  /\ \A item \in Delivered : item[2].status = 0 => item[2].ok = FALSE

\* A response of a send that raised was delivered, and so was a response with
\* status 0 that came out of the cache.
C5_Witness ==
  /\ \E item \in Delivered : item[1] \in raised
  /\ \E item \in Delivered : item[1] \notin raised /\ item[2].status = 0

\* C6: usage errors at the construction boundary: when the KeyError for a
\* missing "url" or "method" is raised, no request of the run has been started.
C6_UsageErrorBeforeAnyWorker == b_pc = "raised" => b_started = {}

\* C7: early termination: after the consumer has dropped the iterator having
\* received fewer than N responses, the outstanding worker tasks have been
\* cancelled and have settled: no worker task is pending or running.
C7_EarlyTermination == (pc = "dropped" /\ Len(delivered) < N) => InFlight = {}

\* C8: cache idempotence: the second run of a list against the cache the first
\* run filled issues no network send and no cache write, looks every request
\* up once, and yields the responses of the first run.
C8_CacheIdempotence ==
  (run = 2 /\ pc = "exhausted") =>
    /\ sends = 0
    /\ \A key \in Kinds : writes[key] = 0
    /\ lookups = N
    /\ delivered = first

\* C9: cache write before delivery: with a cache, the cache holds an entry
\* for the request of every response handed to the consumer, and for every
\* request once the iterator is exhausted.
C9_WriteBeforeDelivery ==
  cacheOn =>
    /\ \A item \in Delivered : cache[requests[item[1]]] # NoEntry
    /\ pc = "exhausted" => \A p \in Priorities : cache[requests[p]] # NoEntry

\* A first run with a cache is drained and one of its sends had raised.
C9_Witness ==
  /\ cacheOn
  /\ run = 1
  /\ pc = "exhausted"
  /\ N >= 2
  /\ raised # {}

\* C10: within one run the cache is written at most once per key.
C10_WriteOncePerKey == \A key \in Kinds : writes[key] <= 1

\* The workers that got as far as session.send in a run without a cache: the
\* started ones whose request could be built.
Sent ==
  {p \in Priorities : taskState[p] \notin {"unscheduled", "scheduled"}
                      /\ ~BuildRaises(requests[p])}

\* What a run without a cache delivers at the position of an item: the failed
\* response if the send of that position raised, the server's response to the
\* request of that position otherwise.
Uncached(item) ==
  IF item[1] \in raised
    THEN \E error \in Errors : item[2] = FailedResponse(error)
    ELSE item[2] = FromTransport(ServerEntry(requests[item[1]]))

\* The first run of a list, without a cache or with an initially empty one,
\* sends every request whose worker got as far as the send and delivers at
\* every position what the run without a cache delivers.
Transparent ==
  run = 1 =>
    /\ sends = Cardinality(Sent)
    /\ \A item \in Delivered : Uncached(item)

\* The requests of the list have pairwise different cache keys.
DistinctKeys == \A p, q \in Priorities : requests[p] = requests[q] => p = q

C12_CacheErrorsIgnored ==
  \A p \in raised : p \in events /\ taskState[p] = "done"

\* The positions of m_saves whose resource has the identifier of resource.
SavesUnder(resource) ==
  {k \in 1 .. Len(m_saves) : identify_resource(m_saves[k][1]) = identify_resource(resource)}

\* The largest element of a non-empty set of numbers.
Latest(S) == CHOOSE k \in S : \A other \in S : other <= k

\* C13: in-memory cache contract: for every resource, while nothing was saved
\* under its identifier has() is false and get() returns None; after saves,
\* has() is true and get() returns the response of the most recent save under
\* that identifier, whatever was saved under other identifiers in between.
C13_MemoryCacheContract ==
  \A resource \in MemResources :
    IF SavesUnder(resource) = {}
      THEN ~has(resource) /\ get(resource) = "None"
      ELSE has(resource) /\ get(resource) = m_saves[Latest(SavesUnder(resource))][2]

\* A response was saved under an identifier, replaced by a later save under
\* the same identifier, and then another identifier was saved.
C13_Witness ==
  /\ Len(m_saves) = 3
  /\ identify_resource(m_saves[1][1]) = identify_resource(m_saves[2][1])
  /\ m_saves[1][2] # m_saves[2][2]
  /\ identify_resource(m_saves[3][1]) # identify_resource(m_saves[1][1])
  /\ m_saves[3][2] = m_saves[1][2]

\* The values a request gives to a key: those of the URL query in the order
\* of the text, then the one of params.
ValuesOf(request, key) ==
  LET Test(item) == item[1] = key /\ item[2] # <<>>
      fromQuery == SelectSeq(request.query, Test)
      fromParams == IF request.params = None THEN <<>>
                    ELSE SelectSeq(request.params[1], Test)
      items == fromQuery \o fromParams
  IN [i \in 1 .. Len(items) |-> items[i][2]]

\* The key -> value-list map the URL query plus params of a request yield.
ParamMap(request) == [key \in {<<"a">>, <<"b">>} |-> ValuesOf(request, key)]

\* The number of times a value occurs in a list.
Count(list, value) == Cardinality({i \in 1 .. Len(list) : list[i] = value})

\* Two lists hold the same values in a different order.
Reordered(list, other) ==
  /\ list # other
  /\ Len(list) = Len(other)
  /\ \A i \in 1 .. Len(list) : Count(list, list[i]) = Count(other, list[i])

\* Two requests are the same apart from query and params.
SameButParams(a, b) ==
  /\ a.method = b.method /\ a.scheme = b.scheme /\ a.netloc = b.netloc
  /\ a.path = b.path /\ a.headers = b.headers

\* C14: the fingerprint is independent of the order of the query keys and of
\* where a parameter is supplied: two requests whose URL query plus params
\* yield the same key -> value-list map have the same sha256(), and two
\* requests whose values of one key are in a different order have different
\* ones.
C14_ParamOrderIndependence ==
  (f_sha # <<>> /\ SameButParams(f_a, f_b)) =>
    /\ ParamMap(f_a) = ParamMap(f_b) => f_sha[1] = f_sha[2]
    /\ (\E key \in DOMAIN ParamMap(f_a) :
          Reordered(ParamMap(f_a)[key], ParamMap(f_b)[key])) => f_sha[1] # f_sha[2]

\* Two dicts hold the same items in a different order.
SameItems(dict, other) ==
  /\ Len(dict) = Len(other)
  /\ {dict[i] : i \in 1 .. Len(dict)} = {other[i] : i \in 1 .. Len(other)}

\* Two requests are the same apart from the order of their header entries.
SameButHeaderOrder(a, b) ==
  /\ a.method = b.method /\ a.scheme = b.scheme /\ a.netloc = b.netloc
  /\ a.path = b.path /\ a.query = b.query /\ a.params = b.params
  /\ a.headers # None /\ b.headers # None
  /\ SameItems(a.headers[1], b.headers[1])

\* C15: fingerprint stability for headers: two requests that differ only in
\* the order of their header entries have the same sha256(), also when names
\* of the mapping differ only in letter case or surrounding blanks.
C15_HeaderOrderIndependence ==
  (f_sha # <<>> /\ SameButHeaderOrder(f_a, f_b)) => f_sha[1] = f_sha[2]

\* Two texts differ at most in letter case.
SameButCase(text, other) == Lower(text) = Lower(other)

\* Two texts differ at most in letter case and surrounding blanks.
SameButCaseAndBlanks(text, other) == Lower(Strip(text)) = Lower(Strip(other))

\* Two requests are the same apart from method and URL.
SameButMethodAndUrl(a, b) ==
  a.query = b.query /\ a.params = b.params /\ a.headers = b.headers

\* C16: canonicalization of method and URL: two requests that differ only in
\* the letter case or surrounding blanks of the method, or in the letter case
\* of the scheme or the host of the URL, have the same sha256(); two requests
\* whose URL paths differ, be it by letter case only, have different ones.
C16_MethodUrlCanonical ==
  (f_sha # <<>> /\ SameButMethodAndUrl(f_a, f_b)) =>
    /\ (/\ SameButCaseAndBlanks(f_a.method, f_b.method)
        /\ SameButCase(f_a.scheme, f_b.scheme)
        /\ SameButCase(f_a.netloc, f_b.netloc)
        /\ f_a.path = f_b.path) => f_sha[1] = f_sha[2]
    /\ f_a.path # f_b.path => f_sha[1] # f_sha[2]

\* The digests of two requests were computed that differ in the case and
\* the blanks of the method and in the case of scheme and host.
C16_Witness ==
  /\ f_sha # <<>>
  /\ f_a.method = <<" ", "a">> /\ f_b.method = <<"A">>
  /\ f_a.scheme # f_b.scheme
  /\ f_a.netloc # f_b.netloc
  /\ f_a.path = f_b.path
  /\ f_sha[1] = f_sha[2]

\* C17: overlap window: whenever the consumer is blocked waiting for response
\* k, the worker tasks of all indices in [k, min(N, k + batch_size)) have been
\* created and are in the task table, so they advance while the consumer
\* waits; with batch_size > N these are all N workers at the first pull.
C17_OverlapWindow ==
  pc = "waiting" =>
    \A p \in Priorities :
      (cursor <= p /\ p < cursor + batch_size) =>
        p \in tasks /\ taskState[p] # "unscheduled"

\* The consumer waits for response 1 of three while the request of worker 2
\* is being sent.
C17_Witness ==
  /\ pc = "waiting"
  /\ N = 3
  /\ batch_size = 2
  /\ cursor = 1
  /\ 1 \notin events
  /\ taskState[2] = "sending"

\* The dispatcher with a gate has delivered the response sequence the
\* ResponseIterator delivered and has performed as many HTTP calls.
SameObservation ==
  /\ e_delivered = [k \in 1 .. Len(delivered) |-> delivered[k][2]]
  /\ Cardinality(e_sent) = sends

C19_EmptyInput ==
  /\ (N = 0 /\ batch_size >= 1) =>
       /\ pc \in {"new", "exhausted", "dropped"}
       /\ delivered = <<>>
       /\ tasks = {} /\ nextSched = 0
       /\ sends = 0 /\ lookups = 0
  /\ (Len(b_given) = 0 /\ b_pc # "idle") =>
       /\ b_pc \in {"new", "exhausted"}
       /\ Batches = <<>>
       /\ b_delivered = <<>> /\ b_started = {}

\* The first pull on an iterator over no requests has ended.
C19_Witness ==
  /\ N = 0
  /\ batch_size >= 1
  /\ pc = "exhausted"
  /\ run = 1
  /\ loopOpen = FALSE

\* C20: len(iterator) is the number of pending responses: whenever the
\* consumer holds the iterator between two pulls, having received j of the N
\* responses, len(iterator) is N - j, and it is 0 once the iterator is
\* exhausted; for the iterator of iterator.py and for the one of utils.py.
C20_LenIsPending ==
  /\ pc \in {"new", "yielded", "exhausted"} => pending = N - Len(delivered)
  /\ b_pc \in {"new", "yielded", "exhausted"} =>
       b_pending = Len(b_given) - Len(b_delivered)

\* The put() calls on index k, as positions of q_puts.
PutsOf(k) == {j \in 1 .. Len(q_puts) : q_puts[j][1] = k}

\* No index has been put twice.
PutOncePerSlot == \A k \in Slots : Cardinality(PutsOf(k)) <= 1

\* The indices of which a call has returned the response.
Got == {q_calls[i][2] : i \in {c \in 1 .. Len(q_calls) : q_calls[c][3][1] = "response"}}

\* C21: Queue.get(index) blocks until put(index, r) has occurred and then
\* returns r, whatever other indices have been put or are outstanding: while
\* no index is put twice, a get(k) that has ended has returned the response
\* put for k.
C21_GetDependsOnlyOnSlot ==
  PutOncePerSlot =>
    \A i \in 1 .. Len(q_calls) :
      q_calls[i][1] = "get" =>
        \E j \in PutsOf(q_calls[i][2]) : q_calls[i][3] = Returned(q_puts[j][2])

\* C22: sequential ordered consumption: when every index is put at most once,
\* in any order, and the consumer only calls get_next(), its i-th call
\* returns the response put for index i - 1, for i up to N, every later call
\* returns None, no call raises, and the call that waits is the one for the
\* next index.
C22_SequentialConsumption ==
  (/\ PutOncePerSlot
   /\ \A i \in 1 .. Len(q_calls) : q_calls[i][1] = "get_next"
   /\ q_blocked # <<>> => q_blocked[1] = "get_next")
  =>
    /\ \A i \in 1 .. Len(q_calls) :
         IF i <= q_total
           THEN /\ q_calls[i][2] = i - 1
                /\ \E j \in PutsOf(i - 1) : q_calls[i][3] = Returned(q_puts[j][2])
           ELSE q_calls[i][3] = ReturnedNone
    /\ q_blocked # <<>> => q_blocked[2] = Len(q_calls)

\* Index 1 was put before index 0, two get_next() calls have returned the
\* responses of 0 and 1, and a third one has returned None.
C22_Witness ==
  /\ q_total = 2
  /\ Len(q_puts) = 2 /\ q_puts[1][1] = 1 /\ q_puts[2][1] = 0
  /\ Len(q_calls) = 3
  /\ \A i \in 1 .. 3 : q_calls[i][1] = "get_next"
  /\ q_calls[1][3] = Returned(2) /\ q_calls[2][3] = Returned(1)
  /\ q_calls[3][3] = ReturnedNone

\* C23: put is exactly-once per slot: a put on an index that has been put
\* before fails with DoublePut, and the queue never holds two items of one
\* index.
C23_DoublePutFails ==
  /\ \A j \in 1 .. Len(q_puts) :
       (\E earlier \in PutsOf(q_puts[j][1]) : earlier < j) => q_puts[j][3] = Raised("DoublePut")
  /\ \A i, j \in 1 .. Len(q_items) : q_items[i][1] = q_items[j][1] => i = j

\* C24: a slot is drained once: a get(index) called after a call has returned
\* the response of the index fails with SlotDrained, and does not wait.
C24_SlotDrainedOnce ==
  /\ \A i, j \in 1 .. Len(q_calls) :
       (/\ i < j
        /\ q_calls[i][3][1] = "response"
        /\ q_calls[j][1] = "get"
        /\ q_calls[j][2] = q_calls[i][2])
       => q_calls[j][3] = Raised("SlotDrained")
  /\ (q_blocked # <<>> /\ q_blocked[1] = "get") => q_blocked[2] \notin Got

\* C25: Queue.empty() is true iff no slot has been put but not yet got, after
\* any sequence of put / get / get_next calls.
C25_EmptyIffNothingOutstanding ==
  empty <=> \A k \in Slots : PutsOf(k) # {} => k \in Got

\* The calls of op that have ended, as positions of q_calls.
CallsOf(op) == {i \in 1 .. Len(q_calls) : q_calls[i][1] = op}

\* The priorities anext_priority() has returned before the i-th call.
ScheduledBefore(i) ==
  {q_calls[j][2] : j \in {c \in CallsOf("anext_priority") : c < i /\ q_calls[c][2] # -1}}

\* The priorities for which aconsume() has succeeded.
Consumed == {q_calls[i][2] : i \in {c \in CallsOf("aconsume") : q_calls[c][3] = ReturnedNone}}

\* C30: Consumption invariant: after any sequence of anext_priority and
\* aconsume calls on a Consumption for N items, scheduled is a subset of
\* consumables, consumables a subset of 0..N-1, is_done holds iff aconsume
\* has succeeded for all N priorities, and every anext_priority call has
\* returned the smallest priority not returned before, or None (-1) iff no
\* such priority was left.
C30_ConsumptionInvariant ==
  /\ q_scheduled \subseteq q_consumables
  /\ q_consumables \subseteq Slots
  /\ is_done <=> Consumed = Slots
  /\ \A i \in CallsOf("anext_priority") :
       LET unscheduled == Slots \ ScheduledBefore(i) IN
         IF unscheduled = {} THEN q_calls[i][2] = -1
         ELSE /\ q_calls[i][2] \in unscheduled
              /\ \A other \in unscheduled : q_calls[i][2] <= other

\* Of two priorities, 0 and 1 were scheduled in this order, an aconsume(0)
\* has succeeded and priority 1 is still scheduled.
C30_Witness ==
  /\ q_total = 2
  /\ q_calls = <<<<"anext_priority", 0, ReturnedNone>>,
                 <<"anext_priority", 1, ReturnedNone>>,
                 <<"aconsume", 0, ReturnedNone>>>>
  /\ q_scheduled = {1}
  /\ ~is_done

\* C29: write-before-read on slots: if the event of index k is set, response
\* k has been put (it is in the priority queue or was handed to the
\* consumer); so when the event the consumer waits for is set, the item at
\* the head of the queue has the priority the consumer waits for, and after
\* the consumer has taken it the item taken and the task popped are those of
\* that index.
C29_WriteBeforeRead ==
  /\ \A k \in events :
       \/ \E item \in queue : item[1] = k
       \/ \E d \in 1 .. Len(delivered) : delivered[d][1] = k
  /\ (pc = "waiting" /\ cursor \in events) =>
       /\ queue # {}
       /\ QueueGet(queue)[1] = cursor
  /\ pc = "yielded" =>
       /\ delivered[Len(delivered)][1] = cursor
       /\ cursor \notin tasks

\* The consumer waits for index 1, whose event is set, while the response of
\* a later index is in the queue as well.
C29_Witness ==
  /\ pc = "waiting"
  /\ cursor = 1
  /\ cursor \in events
  /\ \E item \in queue : item[1] > cursor

\* C26: single shared HTTP client: one client instance is created for a run,
\* all workers of the run are given that instance, and it is open while a
\* worker is in flight.
C26_SingleSharedClient ==
  /\ b_sessions <= 1
  /\ \A i, j \in b_started : b_sessionOf[i] = b_sessionOf[j]
  /\ b_inflight # {} => (b_session # 0 /\ \A i \in b_inflight : b_sessionOf[i] = b_session)

\* The response of the last save under key among the first n operations, or
\* None.
RECURSIVE LastSaved(_, _)
LastSaved(key, n) ==
  IF n = 0 THEN None
  ELSE IF s_log[n][1] = "save" /\ s_log[n][2] = key THEN s_log[n][3]
  ELSE LastSaved(key, n - 1)

\* C27: storage round trip: with each of the three storages, an
\* aget_response returns a response whose url, status, ok, reason, headers,
\* content and encoding are those of the response last saved under the
\* fingerprint of the request, and None if none was saved under it.
C27_StorageRoundTrip ==
  \A i \in 1 .. Len(s_log) :
    s_log[i][1] = "get" => s_log[i][3] = LastSaved(s_log[i][2], i - 1)

\* With the file storage, two different responses were saved under one
\* fingerprint and an aget_response has then returned the second.
C27_Witness ==
  /\ s_backend = "file"
  /\ Len(s_log) = 3
  /\ s_log[1][1] = "save" /\ s_log[2][1] = "save" /\ s_log[3][1] = "get"
  /\ s_log[1][2] = s_log[3][2] /\ s_log[2][2] = s_log[3][2]
  /\ s_log[1][3] # s_log[2][3]
  /\ s_log[3][3] = s_log[2][3]

\* C28: the storage operations are safe under concurrent workers: at most
\* one task is inside the critical section of the storage at a time, a task
\* that is inside holds the lock, and every aget_response has returned None
\* or a response saved before under the same fingerprint.
C28_StorageMutualExclusion ==
  /\ \A t, u \in Workers : (s_pc[t] = "inside" /\ s_pc[u] = "inside") => t = u
  /\ \A t \in Workers : s_pc[t] = "inside" => s_holder = t
  /\ \A i \in 1 .. Len(s_log) :
       s_log[i][1] = "get" =>
         \/ s_log[i][3] = None
         \/ \E j \in 1 .. i - 1 :
              s_log[j][1] = "save" /\ s_log[j][2] = s_log[i][2] /\ s_log[j][3] = s_log[i][3]

\* With the SQLite storage, a task waits for the lock while the other is
\* inside the critical section with an aget_response for a fingerprint a
\* response was saved under.
C28_Witness ==
  /\ s_backend = "sqlite"
  /\ \E t, u \in Workers :
       /\ s_pc[t] = "inside" /\ s_op[t][1] = "get"
       /\ s_store[sha256(s_op[t][2])] # None
       /\ s_pc[u] = "waiting" /\ s_op[u][1] = "save"
       /\ sha256(s_op[u][2]) = sha256(s_op[t][2])

\* The concatenation of the first k batches.
RECURSIVE Concat(_, _)
Concat(batches, k) == IF k = 0 THEN <<>> ELSE Concat(batches, k - 1) \o batches[k]

\* C31: chunk(values, n) with n >= 1 partitions the input: the batches
\* concatenated are the values, every batch has at least one and at most n
\* elements, and every batch but the last has n.
C31_ChunkPartitions ==
  b_pc # "idle" =>
    /\ Concat(Batches, Len(Batches)) = [i \in 1 .. Len(b_given) |-> i]
    /\ \A j \in 1 .. Len(Batches) :
         /\ Len(Batches[j]) >= 1
         /\ Len(Batches[j]) <= b_batch_size
         /\ j < Len(Batches) => Len(Batches[j]) = b_batch_size

\* Three resources in batches of two: the iterator is at the second batch,
\* which has one element.
C31_Witness ==
  /\ Len(b_given) = 3
  /\ b_batch_size = 2
  /\ b_start = 2
  /\ Len(CurrentBatch) = 1

\* The number of the batch resource i is in.
BatchOf(i) == CHOOSE b \in 1 .. Len(Batches) : \E j \in 1 .. Len(Batches[b]) : Batches[b][j] = i

\* The resources whose response the consumer has received.
BDelivered == {b_delivered[k][1] : k \in 1 .. Len(b_delivered)}

\* C32: batch barrier of the chunked iterator: a request is started only
\* when every response of the earlier batches has been returned to the
\* consumer, and a response is returned only when no request of its batch is
\* still awaited.
C32_BatchBarrier ==
  /\ \A i \in b_started : \A j \in 1 .. Len(b_given) :
       BatchOf(j) < BatchOf(i) => j \in BDelivered
  /\ \A i \in BDelivered : \A j \in b_inflight : BatchOf(j) # BatchOf(i)

\* Both responses of the first batch were returned and the request of the
\* second batch is awaited.
C32_Witness ==
  /\ Len(b_given) = 3
  /\ b_batch_size = 2
  /\ b_start = 2
  /\ b_inflight = {3}
  /\ BDelivered = {1, 2}

\* C33: concurrent consumers of the response queue: with two consumers in
\* get_next() at the same time and every index put at most once, in any
\* order, no get_next() call raises, the call for a priority returns the
\* response put for that priority, and no response is returned twice.
C33_ConcurrentConsumers ==
  PutOncePerSlot =>
    /\ \A i \in 1 .. Len(q_calls) :
         \/ q_calls[i][3] = ReturnedNone
         \/ \E j \in PutsOf(q_calls[i][2]) : q_calls[i][3] = Returned(q_puts[j][2])
    /\ \A i, j \in 1 .. Len(q_calls) :
         (q_calls[i][3][1] = "response" /\ q_calls[i][3] = q_calls[j][3]) => i = j

\* C34: teardown terminates: when _afetch_responses is torn down, after
\* normal exhaustion or because the generator was closed at a yield, every
\* item put into the priority queue has been marked done, so that the join()
\* of the finally block returns.
C34_TeardownJoins ==
  /\ pc # "joining"
  /\ pc \in {"exhausted", "dropped"} => unfinished = 0

\* C35: error atomicity of Queue.get: a step in which a get(k) ends with
\* ValueError or KeyError leaves the items of the queue and the sets
\* consumables and scheduled as they were, so that no response is lost.
C35_GetErrorAtomic ==
  [][(/\ Len(q_calls') = Len(q_calls) + 1
      /\ q_calls'[Len(q_calls')][1] = "get"
      /\ q_calls'[Len(q_calls')][3][1] \in {"ValueError", "KeyError"})
     => (/\ q_items' = q_items
         /\ q_consumables' = q_consumables
         /\ q_scheduled' = q_scheduled)]_vars

\* C36: lazy start: a ResponseIterator that was constructed and not pulled
\* has started no worker and sent no request, in iterator.py and in utils.py,
\* and the worker of index j >= batch_size is started only after the response
\* of index j - batch_size has been handed to the consumer.
C36_LazyStart ==
  /\ pc = "new" =>
       /\ tasks = {}
       /\ sends = 0
       /\ \A p \in Priorities : taskState[p] = "unscheduled"
  /\ b_pc = "new" => b_started = {}
  /\ \A j \in Priorities :
       (taskState[j] # "unscheduled" /\ j >= batch_size) =>
         \E d \in 1 .. Len(delivered) : delivered[d][1] = j - batch_size
  /\ \A j \in b_started :
       j > b_batch_size => j - b_batch_size \in BDelivered

\* With batch size 1 the worker of index 1 has been started, after response 0
\* was handed over, and the worker of index 2 has not.
C36_Witness ==
  /\ batch_size = 1
  /\ N = 3
  /\ Len(delivered) = 1
  /\ taskState[1] # "unscheduled"
  /\ taskState[2] = "unscheduled"

\* C37: non-positive batch size: with batch_size <= 0 and N >= 1 the
\* iterator creates no worker task, no event is ever set, and the consumer's
\* first pull never returns: nothing is handed over and the iterator is never
\* exhausted.
C37_NonPositiveBatchSize ==
  (batch_size <= 0 /\ N >= 1) =>
    /\ tasks = {} /\ nextSched = 0
    /\ \A p \in Priorities : taskState[p] = "unscheduled"
    /\ events = {} /\ queue = {}
    /\ delivered = <<>>
    /\ pc \in {"new", "waiting", "dropped"}

\* The first pull on an iterator with batch size 0 over two requests waits.
C37_Witness ==
  /\ batch_size = 0
  /\ N = 2
  /\ pc = "waiting"
  /\ cursor = 0
  /\ sessionOpen

\* Two resources agree on what the cache key is made of: the same method and
\* url and the same parameters, whatever the order the keys were written in
\* (headers, data and json are absent from both).
SameKeyFields(a, b) ==
  /\ a.method = b.method
  /\ a.url = b.url
  /\ (a.params = NoMapping) = (b.params = NoMapping)
  /\ a.params # NoMapping =>
       /\ Len(a.params[2]) = Len(b.params[2])
       /\ \A k \in 1 .. Len(a.params[2]) :
            \E l \in 1 .. Len(b.params[2]) : a.params[2][k] = b.params[2][l]

\* C38: cache key determinism and scope: resources that agree on method, url,
\* and parameters have the same identifier, whatever the key order of the
\* parameters and whatever their timeout; a response saved for one of them is
\* what has() and get() answer for every other one.
C38_CacheKeyScope ==
  /\ \A a, b \in MemResources :
       SameKeyFields(a, b) => identify_resource(a) = identify_resource(b)
  /\ m_saves # <<>> =>
       \A other \in MemResources :
         SameKeyFields(other, m_saves[Len(m_saves)][1]) =>
           /\ has(other)
           /\ get(other) = m_saves[Len(m_saves)][2]

\* A response was saved for a resource with a timeout, then another response
\* for the same parameters in the other key order and without timeout; get()
\* for the first resource answers the second response.
C38_Witness ==
  /\ Len(m_saves) = 2
  /\ m_saves[1][1].timeout = "10"
  /\ m_saves[2][1].timeout = "None"
  /\ m_saves[1][1].params # NoMapping
  /\ m_saves[1][1].params # m_saves[2][1].params
  /\ SameKeyFields(m_saves[1][1], m_saves[2][1])
  /\ m_saves[1][2] # m_saves[2][2]
  /\ get(m_saves[1][1]) = m_saves[2][2]

\* C39: inputs are not modified: at every point of a run every mapping of the
\* caller holds the keys the caller gave it, "method" and "url" included,
\* whether the list came through mure.request or through a per-method front.
C39_InputsUnchanged ==
  \A i \in DOMAIN b_given : CallerKeys(i) = b_given[i]

====
